---- MODULE Spec2Model ----
(***************************************************************************)
(* A model of netbeat's protocol engine (src/src/core): the server's       *)
(* accept loop with its admission counter (Server::listen), the client's   *)
(* connection establishment (Client::contact), the phase sequence of one   *)
(* session on both sides, and the byte accounting of the transfer loops.   *)
(***************************************************************************)
EXTENDS Integers, Sequences, FiniteSets, TLC

(***************************************************************************)
(* Bounds of the model.                                                    *)
(***************************************************************************)
\* connections that arrive at the listener during one run
NumConns == 3
\* largest configured max_connections
MaxK == 2

Conns == 1..NumConns

VARIABLES
    \* ---- Server::listen (src/src/core/server.rs) ----
    lpc,               \* position of the thread running listen()
    max_connections,   \* Server.max_connections
    connection_count,  \* the value behind Arc<Mutex<usize>>
    poisoned,          \* the mutex was held by a thread that panicked
    conn,              \* per connection: where it and its worker stand
    cur,               \* the stream the accept loop is working on (0: none)
    io,                \* per connection: reads and writes the server made on it
    incs,              \* per connection: increments of the counter made for it
    decs,              \* per connection: decrements of the counter made for it
    \* ---- one session: Client::contact against handle_client ----
    retries,           \* Client.retries
    ping_count,        \* Client.ping_count
    data,              \* Client.data: None (NoData) or the byte target
    time,              \* Client.time, the seconds a time-targeted phase lasts
    chunk_size,        \* Client.chunk_size, the length of the client's buffer
    srv_chunk_size,    \* Server.chunk_size, the length of the worker's buffers
    cpc,               \* position of the thread running contact()
    attempt,           \* the loop variable of contact()
    attempts,          \* connect_timeout calls made so far
    errs,              \* the error of each failed connect attempt, in order
    cres,              \* what contact() returned: kind, message, cause
    i,                 \* the loop variable of run_ping_test
    successful_pings,  \* run_ping_test's counter
    ping_times,        \* run_ping_test's samples: iteration and answered PING
    bytes_sent,        \* run_upload_test's counter
    bytes_received,    \* run_download_test's counter
    ping_report,       \* what run_ping_test returned, NoReport before
    cerrs,             \* the I/O errors the client has met: where and which
    slept,             \* the ping iterations after which the client slept
    netbeat_report,    \* the NetbeatReport assembled and logged, NoReport before
    spc,               \* position of the worker running handle_client
    sres,              \* what handle_client returned
    done_len,          \* handle_upload_test: done_buffer.len()
    serrs,             \* the errors the worker has met: where and which
    c2s,               \* bytes written by the client, not yet read by the worker
    s2c,               \* bytes written by the worker, not yet read by the client
    csent,             \* the messages the client has written, in order
    slog,              \* the handlers the worker has entered and left, in order
    faults,            \* 1 once an I/O error has occurred on either side
    \* ---- handle_upload_test's read loop, byte by byte ----
    wire,              \* the bytes the client writes after UPLOAD_START
    rd,                \* how many of them the worker has read
    buffer_len,        \* buffer.len(), the worker's chunk_size
    done_buffer,       \* done_buffer
    last_n,            \* n of the latest Ok(n)
    upc,               \* where the loop stands
    \* ---- the process: main, run and the two builders ----
    via,               \* "cli": main() runs; "lib": a caller uses the builder
    cmd,               \* Commands::Run or Commands::Serve
    argv,              \* what the caller passes: target, data, chunk size
    ppc,               \* position of the main thread
    built,             \* the Client or Server that build() returned
    berr,              \* the Err that the builder or the engine returned
    eres,              \* what contact() or listen() came to
    net_used,          \* sockets opened so far (connect or bind)
    exit_code          \* the process's exit code, NoExit while it runs

listen_vars == <<lpc, max_connections, connection_count, poisoned, conn, cur,
                 io, incs, decs>>

config_vars == <<retries, ping_count, data, time, chunk_size, srv_chunk_size>>

client_vars == <<cpc, attempt, attempts, errs, cres, i, successful_pings,
                 ping_times, bytes_sent, bytes_received, csent, ping_report,
                 cerrs, slept, netbeat_report>>

server_vars == <<spc, sres, done_len, slog, serrs>>

session_vars == <<config_vars, client_vars, server_vars, c2s, s2c, faults>>

scan_vars == <<wire, rd, buffer_len, done_buffer, last_n, upc>>

cli_vars == <<via, cmd, argv, ppc, built, berr, eres, net_used, exit_code>>

vars == <<listen_vars, session_vars, scan_vars, cli_vars>>

(***************************************************************************)
(* Server::listen                                                          *)
(***************************************************************************)
\* a worker thread is inside handle_client
InHandleClient == {"ping", "upload", "download"}
\* handle_client has returned and the closure has not yet taken the lock
Returned == {"ret_ok", "ret_err"}

\* the listener before listen() is called
ListenStart(K) ==
    /\ lpc = "bind"
    /\ max_connections = K
    /\ connection_count = 0
    /\ poisoned = FALSE
    /\ conn = [c \in Conns |-> "new"]
    /\ cur = 0
    /\ io = [c \in Conns |-> 0]
    /\ incs = [c \in Conns |-> 0]
    /\ decs = [c \in Conns |-> 0]

\* no session is modelled: the session variables rest
SessionOff ==
    /\ retries = 0 /\ ping_count = 0 /\ data = 0 /\ time = 0
    /\ chunk_size = 1 /\ srv_chunk_size = 1
    /\ cpc = "off" /\ attempt = 0 /\ attempts = 0 /\ errs = <<>>
    /\ cres = [kind |-> "none", msg |-> "", cause |-> ""]
    /\ i = 0 /\ successful_pings = 0 /\ ping_times = <<>>
    /\ bytes_sent = 0 /\ bytes_received = 0
    /\ ping_report = [made |-> FALSE] /\ cerrs = <<>>
    /\ slept = <<>> /\ netbeat_report = [made |-> FALSE]
    /\ spc = "off" /\ sres = "none" /\ done_len = 0 /\ serrs = <<>>
    /\ c2s = <<>> /\ s2c = <<>> /\ csent = <<>> /\ slog = <<>>
    /\ faults = 0

\* the byte-level read loop is not modelled: its variables rest
ScanOff ==
    /\ wire = <<>> /\ rd = 0 /\ buffer_len = 1
    /\ done_buffer = <<>> /\ last_n = 0 /\ upc = "off"

\* the process has not exited
NoExit == -1
\* build() has not returned a Client or a Server
NoConfig == [made |-> FALSE]
\* no Err has been returned
NoErr == [kind |-> "none", msg |-> ""]

\* no process is modelled: its variables rest
CliOff ==
    /\ via = "off" /\ cmd = "off" /\ ppc = "off"
    /\ argv = [clap |-> "ok", target |-> "ip", data |-> "none",
               chunk_size |-> [parsed |-> FALSE, size |-> 0]]
    /\ built = NoConfig /\ berr = NoErr /\ eres = "none"
    /\ net_used = 0 /\ exit_code = NoExit

ListenInit ==
    /\ \E K \in 0..MaxK : ListenStart(K)
    /\ SessionOff
    /\ ScanOff
    /\ CliOff

\* TcpListener::bind(..).map_err(ConnectionError)?  and the creation of the
\* counter: the one failure after which listen() has not yet accepted.
Bind ==
    /\ lpc = "bind"
    /\ \/ lpc' = "accept"
       \/ lpc' = "bind_failed"
    /\ UNCHANGED <<max_connections, connection_count, poisoned, conn, cur,
                   io, incs, decs>>
    /\ UNCHANGED <<session_vars, scan_vars, cli_vars>>

\* Err(e) => self.logger.error(..): a failed accept is logged, the loop goes on.
AcceptFailed ==
    /\ lpc = "accept"
    /\ UNCHANGED vars

AtCapacity_OffByOne == connection_count > max_connections

\* The capacity test of the accept loop: *count >= self.max_connections.
AtCapacity == connection_count >= max_connections

\* Ok(stream) with *count >= max_connections: the error line is written with
\* stream.peer_addr().unwrap() while the guard is held, the stream is dropped
\* and the loop continues.  When peer_addr() is Err the unwrap panics the
\* listening thread with the guard alive, which poisons the mutex.
Reject(c) ==
    /\ lpc = "accept"
    /\ conn[c] = "new"
    /\ ~poisoned
    /\ AtCapacity
    /\ conn' = [conn EXCEPT ![c] = "rejected"]
    /\ \/ /\ lpc' = "accept"
          /\ poisoned' = poisoned
       \/ /\ lpc' = "panicked"
          /\ poisoned' = TRUE
    /\ UNCHANGED <<max_connections, connection_count, cur, io, incs, decs>>
    /\ UNCHANGED <<session_vars, scan_vars, cli_vars>>

Admit_Unchecked(c) ==
    /\ lpc = "accept"
    /\ conn[c] = "new"
    /\ ~poisoned
    /\ connection_count' = connection_count + 1
    /\ incs' = [incs EXCEPT ![c] = @ + 1]
    /\ conn' = [conn EXCEPT ![c] = "admitted"]
    /\ cur' = c
    /\ lpc' = "dispatch"
    /\ UNCHANGED <<max_connections, poisoned, io, decs>>
    /\ UNCHANGED <<session_vars, scan_vars, cli_vars>>

\* Ok(stream) below capacity: *count += 1 under the lock, guard released.
Admit(c) ==
    /\ lpc = "accept"
    /\ conn[c] = "new"
    /\ ~poisoned
    /\ ~AtCapacity
    /\ connection_count' = connection_count + 1
    /\ incs' = [incs EXCEPT ![c] = @ + 1]
    /\ conn' = [conn EXCEPT ![c] = "admitted"]
    /\ cur' = c
    /\ lpc' = "dispatch"
    /\ UNCHANGED <<max_connections, poisoned, io, decs>>
    /\ UNCHANGED <<session_vars, scan_vars, cli_vars>>

\* The rest of the Ok(stream) arm: set_nodelay(..)?, set_write_timeout(..)?,
\* the info line with peer_addr().unwrap(), thread::spawn of the worker.
\* A socket-option error returns from listen(); an unavailable peer address
\* panics the listening thread (no guard is held here).  In both cases the
\* stream is dropped and no worker exists for it.
Dispatch ==
    /\ lpc = "dispatch"
    /\ \/ /\ conn' = [conn EXCEPT ![cur] = "ping"]
          /\ lpc' = "accept"
       \/ /\ conn' = [conn EXCEPT ![cur] = "dropped"]
          /\ lpc' = "returned_err"
       \/ /\ conn' = [conn EXCEPT ![cur] = "dropped"]
          /\ lpc' = "panicked"
    /\ cur' = 0
    /\ UNCHANGED <<max_connections, connection_count, poisoned, io, incs, decs>>
    /\ UNCHANGED <<session_vars, scan_vars, cli_vars>>

(***************************************************************************)
(* The worker closure: handle_client, then the decrement.  What the peer   *)
(* does is left open here: each phase handler may return Ok or Err.        *)
(***************************************************************************)
\* handle_ping_test: Err only from set_read_timeout; every read error and
\* PING_DONE end it with Ok(()).
HandlePing(c) ==
    /\ conn[c] = "ping"
    /\ io' = [io EXCEPT ![c] = @ + 1]
    /\ \/ conn' = [conn EXCEPT ![c] = "upload"]
       \/ conn' = [conn EXCEPT ![c] = "ret_err"]
    /\ UNCHANGED <<lpc, max_connections, connection_count, poisoned, cur,
                   incs, decs>>
    /\ UNCHANGED <<session_vars, scan_vars, cli_vars>>

\* handle_upload_test: Err when the start signal cannot be read or differs.
HandleUpload(c) ==
    /\ conn[c] = "upload"
    /\ io' = [io EXCEPT ![c] = @ + 1]
    /\ \/ conn' = [conn EXCEPT ![c] = "download"]
       \/ conn' = [conn EXCEPT ![c] = "ret_err"]
    /\ UNCHANGED <<lpc, max_connections, connection_count, poisoned, cur,
                   incs, decs>>
    /\ UNCHANGED <<session_vars, scan_vars, cli_vars>>

\* handle_download_test: Err when the start signal cannot be read or differs
\* or the write timeout cannot be set; the write loop itself ends with Ok(()).
HandleDownload(c) ==
    /\ conn[c] = "download"
    /\ io' = [io EXCEPT ![c] = @ + 1]
    /\ \/ conn' = [conn EXCEPT ![c] = "ret_ok"]
       \/ conn' = [conn EXCEPT ![c] = "ret_err"]
    /\ UNCHANGED <<lpc, max_connections, connection_count, poisoned, cur,
                   incs, decs>>
    /\ UNCHANGED <<session_vars, scan_vars, cli_vars>>

\* A panic inside handle_client (the logger's eprintln! panics when stderr
\* cannot be written, Spinner::new when its thread cannot be spawned): the
\* closure is unwound past the decrement; no catch_unwind and no guard
\* object owns the slot.
WorkerPanics(c) ==
    /\ conn[c] \in InHandleClient
    /\ conn' = [conn EXCEPT ![c] = "panicked"]
    /\ UNCHANGED <<lpc, max_connections, connection_count, poisoned, cur, io,
                   incs, decs>>
    /\ UNCHANGED <<session_vars, scan_vars, cli_vars>>

\* The tail of the closure: count_clone.lock().unwrap(); *count -= 1.
\* A poisoned mutex makes the unwrap panic before the decrement.
Release(c) ==
    /\ conn[c] \in Returned
    /\ IF poisoned
          THEN /\ conn' = [conn EXCEPT ![c] = "lock_panicked"]
               /\ UNCHANGED <<connection_count, decs>>
          ELSE /\ connection_count' = connection_count - 1
               /\ decs' = [decs EXCEPT ![c] = @ + 1]
               /\ conn' = [conn EXCEPT ![c] = "done"]
    /\ UNCHANGED <<lpc, max_connections, poisoned, cur, io, incs>>
    /\ UNCHANGED <<session_vars, scan_vars, cli_vars>>

ListenNext ==
    \/ Bind
    \/ AcceptFailed
    \/ \E c \in Conns : Reject(c)
    \/ \E c \in Conns : Admit(c)
    \/ Dispatch
    \/ \E c \in Conns : HandlePing(c)
    \/ \E c \in Conns : HandleUpload(c)
    \/ \E c \in Conns : HandleDownload(c)
    \/ \E c \in Conns : WorkerPanics(c)
    \/ \E c \in Conns : Release(c)

Spec == ListenInit /\ [][ListenNext]_vars

(***************************************************************************)
(* One session: Client::contact and run_speed_test on one side,            *)
(* handle_client on the other, joined by the two directions of one TCP     *)
(* stream.  A stream is the sequence of the messages written to it and not *)
(* yet read, each with the number of its bytes still unread; reads take    *)
(* bytes, not messages.                                                    *)
(***************************************************************************)
\* largest retries, ping_count, byte target and buffer length tried
MaxRetries == 3
MaxPings == 2
MaxTarget == 3
MaxChunk == 2
\* writes of a time-targeted upload, reads of a time-targeted download
MaxTimed == 1
\* bytes the worker can write ahead of the client's reads
SockBuf == 2
\* longest round trip measured, in the clock's units
MaxRtt == 1

\* protocol.rs: the lengths of the sentinels
PING_MESSAGE_LEN == 12
PING_RESPONSE_LEN == 12
PING_DONE_LEN == 12
UPLOAD_START_LEN == 20
UPLOAD_DONE_LEN == 19
DOWNLOAD_START_LEN == 22

\* Client.data = None
NoData == -1

MsgLen(k) ==
    CASE k = "PING" -> PING_MESSAGE_LEN
      [] k = "PONG" -> PING_RESPONSE_LEN
      [] k = "PING_DONE" -> PING_DONE_LEN
      [] k = "UPLOAD_START" -> UPLOAD_START_LEN
      [] k = "UPLOAD_DONE" -> UPLOAD_DONE_LEN
      [] k = "DOWNLOAD_START" -> DOWNLOAD_START_LEN

Min(a, b) == IF a <= b THEN a ELSE b

\* a sentinel as written; id tells the PINGs (and the PONGs answering them) apart
Msg(k, id) == [k |-> k, n |-> MsgLen(k), id |-> id]
\* n bytes of the transfer buffer
Payload(n) == [k |-> "DATA", n |-> n, id |-> 0]

\* stream.write_all(message): the bytes follow those already in the stream
Write(ch, m) ==
    IF m.n = 0 THEN ch
    ELSE IF ch # <<>> /\ m.k = "DATA" /\ ch[Len(ch)].k = "DATA"
            THEN [ch EXCEPT ![Len(ch)].n = @ + m.n]
            ELSE Append(ch, m)

RECURSIVE Avail(_)
\* the bytes a read can return now
Avail(ch) == IF ch = <<>> THEN 0 ELSE ch[1].n + Avail(Tail(ch))

RECURSIVE Take(_, _)
\* the stream after n of its bytes have been read
Take(ch, n) ==
    IF n = 0 \/ ch = <<>> THEN ch
    ELSE IF ch[1].n <= n THEN Take(Tail(ch), n - ch[1].n)
         ELSE [ch EXCEPT ![1].n = @ - n]

RECURSIVE LastRead(_, _)
\* LastRead(ch, n): the message whose final byte is the last of the next n
\* bytes of ch, or NoMsg when those n bytes end inside a message or in payload
NoMsg == [k |-> "none", n |-> 0, id |-> 0]
LastRead(ch, n) ==
    IF n = 0 \/ ch = <<>> THEN NoMsg
    ELSE IF ch[1].n < n THEN LastRead(Tail(ch), n - ch[1].n)
    ELSE IF ch[1].n = n /\ ch[1].k # "DATA" THEN ch[1]
    ELSE NoMsg

\* read_exact of len bytes compared with a sentinel: the bytes are that
\* sentinel exactly when they are one whole message of that length
Whole(ch, len) ==
    IF ch # <<>> /\ ch[1].k # "DATA" /\ ch[1].n = len /\ MsgLen(ch[1].k) = len
       THEN ch[1] ELSE NoMsg

\* An I/O call can fail although its peer is alive and its data is there
\* (a reset, a stalled network): the first I/O error of a session may be of
\* that kind.  Errors forced by the peer's state (nothing to read, the peer
\* gone) can follow in any number.
MayInject == faults = 0
Fault == faults' = 1

\* the client's end of the stream is closed: contact() has returned
ClientClosed == cpc = "returned"
\* the worker's end is closed: the listener dropped the stream or
\* handle_client has returned
ServerClosed == spc \in {"rejected", "returned"}

\* no PingReport yet
NoReport == [made |-> FALSE]

SessionStart(R, N, D, TM, C, SC) ==
    /\ retries = R /\ ping_count = N /\ data = D /\ time = TM
    /\ chunk_size = C /\ srv_chunk_size = SC
    /\ cpc = "connect" /\ attempt = 1 /\ attempts = 0 /\ errs = <<>>
    /\ cres = [kind |-> "none", msg |-> "", cause |-> ""]
    /\ i = 0 /\ successful_pings = 0 /\ ping_times = <<>>
    /\ bytes_sent = 0 /\ bytes_received = 0
    /\ ping_report = NoReport /\ cerrs = <<>>
    /\ slept = <<>> /\ netbeat_report = NoReport
    /\ spc = "idle" /\ sres = "none" /\ done_len = 0 /\ serrs = <<>>
    /\ c2s = <<>> /\ s2c = <<>> /\ csent = <<>> /\ slog = <<>>
    /\ faults = 0

\* a client with retries = 1 meets a listening server
SessionInit ==
    /\ ListenStart(1)
    /\ \E N \in 0..MaxPings, D \in {NoData} \cup 0..MaxTarget,
          TM \in 0..1, C \in 1..MaxChunk, SC \in {1, MaxChunk} :
             /\ D # NoData => TM = 1
             /\ SessionStart(1, N, D, TM, C, SC)
    /\ ScanOff
    /\ CliOff

\* contact() alone, for every retries: what run_speed_test does is left open
ContactInit ==
    /\ ListenStart(1)
    /\ \E R \in 0..MaxRetries : SessionStart(R, 0, NoData, 1, 1, 1)
    /\ ScanOff
    /\ CliOff

\* an I/O call of the client returns Err: noted with the place of the call
ClientErr(kind) == cerrs' = Append(cerrs, [at |-> cpc, kind |-> kind])

\* contact() returns: the stream, if any, is dropped with it
Return(kind, msg, cause) ==
    /\ cpc' = "returned"
    /\ cres' = [kind |-> kind, msg |-> msg, cause |-> cause]

(***************************************************************************)
(* Client::contact                                                         *)
(***************************************************************************)
MayRetry_Always(a) == a <= retries

\* Err(_) if attempt < self.retries => continue
MayRetry(a) == a < retries

AllAttemptsFailed_AsConnectionError == Return("ConnectionError", "", "refused")

\* Err(NetbeatError::client("All connection attempts failed".to_string()))
AllAttemptsFailed == Return("ClientError", "All connection attempts failed", "")

\* for attempt in 1..=self.retries with retries = 0: the loop body never
\* runs and contact() returns the client error.
ContactNoAttempt ==
    /\ cpc = "connect"
    /\ attempt > retries
    /\ AllAttemptsFailed
    /\ UNCHANGED cerrs
    /\ UNCHANGED <<attempt, attempts, errs, i, successful_pings, ping_times,
                   bytes_sent, bytes_received, csent>>
    /\ UNCHANGED <<ping_report, slept, netbeat_report>>
    /\ UNCHANGED <<config_vars, server_vars, c2s, s2c, faults, listen_vars, scan_vars, cli_vars>>

\* TcpStream::connect_timeout fails with e: retry, or return the error of
\* this attempt.
ConnectFails(e) ==
    /\ cpc = "connect"
    /\ attempt <= retries
    /\ attempts' = attempts + 1
    /\ errs' = Append(errs, e)
    /\ UNCHANGED cerrs
    /\ IF MayRetry(attempt)
          THEN /\ attempt' = attempt + 1
               /\ UNCHANGED <<cpc, cres>>
          ELSE /\ Return("ConnectionError", "", e)
               /\ UNCHANGED attempt
    /\ UNCHANGED <<i, successful_pings, ping_times, bytes_sent,
                   bytes_received, csent>>
    /\ UNCHANGED <<ping_report, slept, netbeat_report>>
    /\ UNCHANGED <<config_vars, server_vars, c2s, s2c, faults, listen_vars, scan_vars, cli_vars>>

\* connect_timeout succeeds: set_nodelay, set_write_timeout and
\* set_read_timeout, each with `?`, then run_speed_test.  The listener on the
\* other side either dispatches a worker or, at capacity, drops the stream.
ConnectOk ==
    /\ cpc = "connect"
    /\ attempt <= retries
    /\ attempts' = attempts + 1
    /\ \/ /\ cpc' = "ping_prime"
          /\ UNCHANGED <<cres, faults, cerrs>>
       \/ /\ MayInject /\ Fault
          /\ ClientErr("sockopt")
          /\ Return("ConnectionError", "", "sockopt")
    /\ \/ spc' = "ping_enter"
       \/ spc' = "rejected"
    /\ UNCHANGED <<attempt, errs, i, successful_pings, ping_times, bytes_sent,
                   bytes_received, csent>>
    /\ UNCHANGED <<ping_report, slept, netbeat_report>>
    /\ UNCHANGED <<config_vars, sres, done_len, slog, serrs, c2s, s2c,
                   listen_vars, scan_vars, cli_vars>>

(***************************************************************************)
(* Client::run_ping_test                                                   *)
(***************************************************************************)
\* a client write: Ok appends the message, Err is an I/O error
ClientWrites(m) ==
    /\ c2s' = Write(c2s, m)
    /\ csent' = Append(csent, m.k)
    /\ UNCHANGED <<faults, cerrs>>

ClientWriteFails ==
    /\ ServerClosed \/ MayInject
    /\ Fault
    /\ ClientErr("write")
    /\ UNCHANGED <<c2s, csent>>

PingLoopFrom_OneMore(n) ==
    IF n <= ping_count + 1
       THEN cpc' = "ping_send" /\ i' = n
       ELSE cpc' = "ping_done" /\ i' = n

\* after the priming PING: for i in 1..self.ping_count + 1
PingLoopFrom(n) ==
    IF n <= ping_count
       THEN cpc' = "ping_send" /\ i' = n
       ELSE cpc' = "ping_done" /\ i' = n

\* protocol::write_message(stream, PING_MESSAGE) before the loop, with `?`
PingPrime ==
    /\ cpc = "ping_prime"
    /\ \/ /\ ClientWrites(Msg("PING", 0))
          /\ PingLoopFrom(1)
          /\ UNCHANGED cres
       \/ /\ ClientWriteFails
          /\ Return("TestExecutionError", "Ping test failed", "write")
          /\ UNCHANGED i
    /\ UNCHANGED <<attempt, attempts, errs, successful_pings, ping_times,
                   bytes_sent, bytes_received>>
    /\ UNCHANGED <<ping_report, slept, netbeat_report>>
    /\ UNCHANGED <<config_vars, server_vars, s2c, listen_vars, scan_vars, cli_vars>>

\* the end of iteration i, unless `continue` or `break` skipped it:
\* if i < self.ping_count - 1 { thread::sleep(Duration::from_millis(100)) }
InterPingDelay ==
    slept' = IF i < ping_count - 1 THEN Append(slept, i) ELSE slept

\* iteration i: write_message(PING); Err is logged and the iteration ends
PingSend ==
    /\ cpc = "ping_send"
    /\ \/ /\ ClientWrites(Msg("PING", i))
          /\ cpc' = "ping_recv"
          /\ UNCHANGED <<i, slept>>
       \/ /\ ClientWriteFails
          /\ InterPingDelay
          /\ PingLoopFrom(i + 1)
    /\ UNCHANGED <<attempt, attempts, errs, cres, successful_pings,
                   ping_times, bytes_sent, bytes_received>>
    /\ UNCHANGED <<ping_report, netbeat_report>>
    /\ UNCHANGED <<config_vars, server_vars, s2c, listen_vars, scan_vars, cli_vars>>

PingHardError_SkipsDone ==
    /\ cpc' = "upload_start"
    /\ UNCHANGED <<i, cres>>

PingHardError_Return ==
    /\ Return("TestExecutionError", "Ping test failed", "read")
    /\ UNCHANGED i

\* UnexpectedEof | ConnectionReset | ConnectionAborted => break
PingHardError ==
    /\ cpc' = "ping_done"
    /\ UNCHANGED <<i, cres>>

PingTimedOut_Breaks ==
    /\ cpc' = "ping_done"
    /\ UNCHANGED i

\* ErrorKind::TimedOut => continue, and any kind that is not a hard one is
\* logged: either way the loop goes to its next iteration
PingTimedOut == PingLoopFrom(i + 1)

IsPingResponse_Any(m) == TRUE

\* if ping_buffer == protocol::PING_RESPONSE
IsPingResponse(m) == m.k = "PONG"

\* iteration i: stream.read_exact(&mut ping_buffer)
PingRecv ==
    /\ cpc = "ping_recv"
    /\ \/ \* Ok: twelve bytes; a sample is pushed when they are PONG
          /\ Avail(s2c) >= PING_RESPONSE_LEN
          /\ LET m == Whole(s2c, PING_RESPONSE_LEN) IN
               IF IsPingResponse(m)
                  THEN /\ successful_pings' = successful_pings + 1
                       /\ \E t \in 1..MaxRtt :
                             ping_times' = Append(ping_times,
                                 [iter |-> i, ping |-> m.id, rtt |-> t])
                  ELSE UNCHANGED <<successful_pings, ping_times>>
          /\ s2c' = Take(s2c, PING_RESPONSE_LEN)
          /\ InterPingDelay
          /\ PingLoopFrom(i + 1)
          /\ UNCHANGED <<cres, faults, cerrs>>
       \/ \* Err of a kind that is not a hard one: the timeout of the read
          \* comes as TimedOut (`continue`, which skips the delay) or as
          \* WouldBlock (logged, the iteration runs to its end)
          /\ Avail(s2c) < PING_RESPONSE_LEN \/ MayInject
          /\ Fault
          /\ ClientErr("soft")
          /\ UNCHANGED slept \/ InterPingDelay
          /\ PingTimedOut
          /\ UNCHANGED <<cres, s2c, successful_pings, ping_times>>
       \/ \* Err, end of stream or reset => break
          /\ (ServerClosed /\ Avail(s2c) < PING_RESPONSE_LEN) \/ MayInject
          /\ Fault
          /\ ClientErr("hard")
          /\ PingHardError
          /\ UNCHANGED <<s2c, successful_pings, ping_times, slept>>
    /\ UNCHANGED <<attempt, attempts, errs, bytes_sent, bytes_received, csent>>
    /\ UNCHANGED <<ping_report, netbeat_report>>
    /\ UNCHANGED <<config_vars, server_vars, c2s, listen_vars, scan_vars, cli_vars>>

RECURSIVE SumRtt(_)
SumRtt(q) == IF q = <<>> THEN 0 ELSE q[1].rtt + SumRtt(Tail(q))

\* PingReport::new(ping_count, successful_pings, ping_times): the smallest,
\* the largest and the mean sample, Duration::ZERO where there is none, and
\* (ping_count - successful_pings) as f64 / ping_count as f64 * 100.0, kept
\* as the fraction num / den; the u32 subtraction underflows when
\* successful_pings > ping_count
PingReportNew(N, S, times) ==
    LET rtts == {times[j].rtt : j \in 1..Len(times)} IN
    [made |-> TRUE,
     ping_count |-> N,
     successful_pings |-> S,
     min_ping |-> IF rtts = {} THEN 0
                  ELSE CHOOSE t \in rtts : \A u \in rtts : t <= u,
     max_ping |-> IF rtts = {} THEN 0
                  ELSE CHOOSE t \in rtts : \A u \in rtts : t >= u,
     avg_ping |-> IF times = <<>> THEN 0 ELSE SumRtt(times) \div Len(times),
     packet_loss |-> [num |-> (N - S) * 100, den |-> N, underflow |-> S > N]]

PingReturns_FailsOnZero ==
    IF successful_pings = 0
       THEN /\ Return("TestExecutionError", "Ping test failed", "no response")
            /\ UNCHANGED ping_report
       ELSE /\ ping_report' = PingReportNew(ping_count, successful_pings, ping_times)
            /\ cpc' = "upload_start"
            /\ UNCHANGED cres

\* Ok(ping_report): with or without a successful ping, run_speed_test goes
\* on to the upload
PingReturns ==
    /\ ping_report' = PingReportNew(ping_count, successful_pings, ping_times)
    /\ cpc' = "upload_start"
    /\ UNCHANGED cres

\* protocol::write_message(stream, PING_DONE) with `?`, then the report
PingDone ==
    /\ cpc = "ping_done"
    /\ \/ /\ ClientWrites(Msg("PING_DONE", 0))
          /\ PingReturns
       \/ /\ ClientWriteFails
          /\ Return("TestExecutionError", "Ping test failed", "write")
          /\ UNCHANGED ping_report
    /\ UNCHANGED <<attempt, attempts, errs, i, successful_pings, ping_times,
                   bytes_sent, bytes_received, slept, netbeat_report>>
    /\ UNCHANGED <<config_vars, server_vars, s2c, listen_vars, scan_vars, cli_vars>>

(***************************************************************************)
(* Client::run_upload_test                                                 *)
(***************************************************************************)
\* let use_time = target_bytes.is_none()
UseTime == data = NoData
\* let target_bytes = target_bytes.unwrap_or(0)
TargetBytes == IF data = NoData THEN 0 ELSE data

ToWrite_WholeBuffer == chunk_size

\* let to_write = if remaining >= buffer.len() { buffer.len() } else { remaining }
ToWrite == Min(TargetBytes - bytes_sent, chunk_size)

ToRead_WholeBuffer == chunk_size

\* let to_read = if remaining >= buffer.len() { buffer.len() } else { remaining }
ToRead == Min(TargetBytes - bytes_received, chunk_size)

UploadFails_Retried == UNCHANGED <<cpc, cres>>

\* run_upload_test returns Err with `?`, run_speed_test wraps it
\* ("Upload test failed - ..") and returns it with `?`
UploadFails == Return("TestExecutionError", "Upload test failed", "write")

\* run_download_test returns Err with `?`, run_speed_test wraps it
\* ("Download test failed - ..") and returns it with `?`
DownloadFails(cause) == Return("TestExecutionError", "Download test failed", cause)

\* protocol::write_message(stream, UPLOAD_START) with `?`
UploadStart ==
    /\ cpc = "upload_start"
    /\ \/ /\ ClientWrites(Msg("UPLOAD_START", 0))
          /\ cpc' = "upload_loop"
          /\ UNCHANGED cres
       \/ /\ ClientWriteFails
          /\ UploadFails
    /\ UNCHANGED <<attempt, attempts, errs, i, successful_pings, ping_times,
                   bytes_sent, bytes_received>>
    /\ UNCHANGED <<ping_report, slept, netbeat_report>>
    /\ UNCHANGED <<config_vars, server_vars, s2c, listen_vars, scan_vars, cli_vars>>

\* one turn of the upload loop: while start_time.elapsed() < target_time
\* writes the whole buffer (the clock may run out before any turn, and does
\* after MaxTimed turns); while bytes_sent < target_bytes writes a slice.
UploadWrite ==
    /\ cpc = "upload_loop"
    /\ IF UseTime THEN time > 0 /\ bytes_sent < MaxTimed * chunk_size
                  ELSE bytes_sent < TargetBytes
    /\ LET w == IF UseTime THEN chunk_size ELSE ToWrite IN
         \/ /\ c2s' = Write(c2s, Payload(w))
            /\ bytes_sent' = bytes_sent + w
            /\ UNCHANGED <<cpc, cres, faults, cerrs>>
         \/ /\ ServerClosed \/ MayInject
            /\ Fault
            /\ ClientErr("write")
            /\ UploadFails
            /\ UNCHANGED <<c2s, bytes_sent>>
    /\ UNCHANGED <<attempt, attempts, errs, i, successful_pings, ping_times,
                   bytes_received, csent>>
    /\ UNCHANGED <<ping_report, slept, netbeat_report>>
    /\ UNCHANGED <<config_vars, server_vars, s2c, listen_vars, scan_vars, cli_vars>>

\* the loop has ended: write_message(UPLOAD_DONE)?, flush()?, the report
UploadDone ==
    /\ cpc = "upload_loop"
    /\ UseTime => time = 0 \/ bytes_sent > 0
    /\ ~UseTime => ~(bytes_sent < TargetBytes)
    /\ \/ /\ ClientWrites(Msg("UPLOAD_DONE", 0))
          /\ cpc' = "pause"
          /\ UNCHANGED cres
       \/ /\ ClientWriteFails
          /\ UploadFails
    /\ UNCHANGED <<attempt, attempts, errs, i, successful_pings, ping_times,
                   bytes_sent, bytes_received>>
    /\ UNCHANGED <<ping_report, slept, netbeat_report>>
    /\ UNCHANGED <<config_vars, server_vars, s2c, listen_vars, scan_vars, cli_vars>>

\* thread::sleep(Duration::from_millis(500)) between upload and download
Pause ==
    /\ cpc = "pause"
    /\ cpc' = "download_start"
    /\ UNCHANGED cerrs
    /\ UNCHANGED <<attempt, attempts, errs, cres, i, successful_pings,
                   ping_times, bytes_sent, bytes_received, csent>>
    /\ UNCHANGED <<ping_report, slept, netbeat_report>>
    /\ UNCHANGED <<config_vars, server_vars, c2s, s2c, faults, listen_vars, scan_vars, cli_vars>>

(***************************************************************************)
(* Client::run_download_test                                               *)
(***************************************************************************)
\* protocol::write_message(stream, DOWNLOAD_START) with `?`
DownloadStart ==
    /\ cpc = "download_start"
    /\ \/ /\ ClientWrites(Msg("DOWNLOAD_START", 0))
          /\ cpc' = "download_loop"
          /\ UNCHANGED cres
       \/ /\ ClientWriteFails
          /\ DownloadFails("write")
    /\ UNCHANGED <<attempt, attempts, errs, i, successful_pings, ping_times,
                   bytes_sent, bytes_received>>
    /\ UNCHANGED <<ping_report, slept, netbeat_report>>
    /\ UNCHANGED <<config_vars, server_vars, s2c, listen_vars, scan_vars, cli_vars>>

\* one turn of the download loop: stream.read(buffer) by time,
\* stream.read(&mut buffer[..to_read]) by bytes.  Ok(0) => break.
DownloadRead ==
    /\ cpc = "download_loop"
    /\ IF UseTime THEN time > 0 /\ bytes_received < MaxTimed * chunk_size
                  ELSE bytes_received < TargetBytes
    /\ LET r == IF UseTime THEN chunk_size ELSE ToRead IN
         \/ \E n \in 1..Min(r, Avail(s2c)) :
               /\ s2c' = Take(s2c, n)
               /\ bytes_received' = bytes_received + n
               /\ UNCHANGED <<cpc, cres, faults, cerrs>>
         \/ /\ ServerClosed /\ Avail(s2c) = 0
            /\ cpc' = "shutdown"
            /\ UNCHANGED <<cres, faults, s2c, bytes_received, cerrs>>
         \/ /\ (Avail(s2c) = 0 /\ ~ServerClosed) \/ MayInject
            /\ Fault
            /\ ClientErr("read")
            /\ DownloadFails("read")
            /\ UNCHANGED <<s2c, bytes_received>>
    /\ UNCHANGED <<attempt, attempts, errs, i, successful_pings, ping_times,
                   bytes_sent, csent>>
    /\ UNCHANGED <<ping_report, slept, netbeat_report>>
    /\ UNCHANGED <<config_vars, server_vars, c2s, listen_vars, scan_vars, cli_vars>>

\* the loop condition is false: flush(), the report
DownloadEnds ==
    /\ cpc = "download_loop"
    /\ UseTime => time = 0 \/ bytes_received > 0
    /\ ~UseTime => ~(bytes_received < TargetBytes)
    /\ cpc' = "shutdown"
    /\ UNCHANGED cerrs
    /\ UNCHANGED <<attempt, attempts, errs, cres, i, successful_pings,
                   ping_times, bytes_sent, bytes_received, csent>>
    /\ UNCHANGED <<ping_report, slept, netbeat_report>>
    /\ UNCHANGED <<config_vars, server_vars, c2s, s2c, faults, listen_vars, scan_vars, cli_vars>>

\* NetbeatReport::new(ping_report, upload_report, download_report)
NetbeatReportNew ==
    [made |-> TRUE, ping |-> ping_report, upload |-> bytes_sent,
     download |-> bytes_received]

\* run_speed_test's tail: NetbeatReport::new, the table (and the JSON) logged,
\* then stream.shutdown(Shutdown::Both) with `?`, then Ok(netbeat_report)
Shutdown ==
    /\ cpc = "shutdown"
    /\ netbeat_report' = NetbeatReportNew
    /\ \/ /\ Return("Ok", "", "")
          /\ UNCHANGED <<faults, cerrs>>
       \/ /\ ServerClosed \/ MayInject
          /\ Fault
          /\ ClientErr("shutdown")
          /\ Return("ConnectionError", "", "shutdown")
    /\ UNCHANGED <<attempt, attempts, errs, i, successful_pings, ping_times,
                   bytes_sent, bytes_received, csent>>
    /\ UNCHANGED <<ping_report, slept>>
    /\ UNCHANGED <<config_vars, server_vars, c2s, s2c, listen_vars, scan_vars, cli_vars>>

(***************************************************************************)
(* handle_client and its three handlers                                    *)
(***************************************************************************)
\* handle_client returns r; the worker's stream is dropped with it
Returns(r, events) ==
    /\ spc' = "returned"
    /\ sres' = r
    /\ slog' = slog \o events

RECURSIVE DataAvail(_)
\* the payload bytes among the unread bytes of a stream
DataAvail(ch) ==
    IF ch = <<>> THEN 0
    ELSE (IF ch[1].k = "DATA" THEN ch[1].n ELSE 0) + DataAvail(Tail(ch))

\* an error the worker meets: noted with the place it is met at
ServerErr(kind) == serrs' = Append(serrs, [at |-> spc, kind |-> kind])

\* handle_ping_test begins: stream.set_read_timeout(..) with `?`
SrvPingEnter ==
    /\ spc = "ping_enter"
    /\ \/ /\ spc' = "ping"
          /\ slog' = Append(slog, "ping")
          /\ UNCHANGED <<sres, faults, serrs>>
       \/ /\ MayInject /\ Fault
          /\ ServerErr("sockopt")
          /\ Returns("Err", <<"ping", "ping_ret">>)
    /\ UNCHANGED <<done_len, c2s, s2c>>
    /\ UNCHANGED <<config_vars, client_vars, listen_vars, scan_vars, cli_vars>>

SrvPingUnexpected_Exits ==
    /\ spc' = "upload_start"
    /\ slog' = Append(slog, "ping_ret")
    /\ UNCHANGED <<s2c, faults, serrs>>

\* twelve bytes that are neither PING_DONE nor PING: a warning, `continue`
SrvPingUnexpected == UNCHANGED <<spc, slog, s2c, faults, serrs>>

\* one turn of the ping loop: stream.read_exact(&mut ping_buffer)
SrvPingRead ==
    /\ spc = "ping"
    /\ \/ \* Ok: PING_DONE breaks, PING is answered, anything else is skipped
          /\ Avail(c2s) >= PING_MESSAGE_LEN
          /\ c2s' = Take(c2s, PING_MESSAGE_LEN)
          /\ LET m == Whole(c2s, PING_MESSAGE_LEN) IN
               CASE m.k = "PING_DONE" ->
                       /\ spc' = "upload_start"
                       /\ slog' = Append(slog, "ping_ret")
                       /\ UNCHANGED <<s2c, faults, serrs>>
                 [] m.k = "PING" ->
                       /\ \/ /\ ~ClientClosed
                             /\ s2c' = Write(s2c, Msg("PONG", m.id))
                             /\ UNCHANGED <<faults, serrs>>
                          \/ /\ ClientClosed \/ MayInject
                             /\ Fault
                             /\ ServerErr("write")
                             /\ UNCHANGED s2c
                       /\ UNCHANGED <<spc, slog>>
                 [] OTHER -> SrvPingUnexpected
          /\ UNCHANGED sres
       \/ \* Err: logged, return Ok(())
          /\ Avail(c2s) < PING_MESSAGE_LEN \/ MayInject
          /\ Fault
          /\ ServerErr("read")
          /\ spc' = "upload_start"
          /\ slog' = Append(slog, "ping_ret")
          /\ UNCHANGED <<sres, c2s, s2c>>
    /\ UNCHANGED done_len
    /\ UNCHANGED <<config_vars, client_vars, listen_vars, scan_vars, cli_vars>>

\* handle_upload_test begins: read_exact(&mut start_buf), which must be
\* UPLOAD_START
SrvUploadStart ==
    /\ spc = "upload_start"
    /\ \/ /\ Avail(c2s) >= UPLOAD_START_LEN
          /\ c2s' = Take(c2s, UPLOAD_START_LEN)
          /\ IF Whole(c2s, UPLOAD_START_LEN).k = "UPLOAD_START"
                THEN /\ spc' = "upload_loop"
                     /\ slog' = Append(slog, "upload")
                     /\ UNCHANGED <<sres, serrs>>
                ELSE /\ ServerErr("mismatch")
                     /\ Returns("Err", <<"upload", "upload_ret">>)
          /\ UNCHANGED faults
       \/ /\ Avail(c2s) < UPLOAD_START_LEN \/ MayInject
          /\ Fault
          /\ ServerErr("read")
          /\ Returns("Err", <<"upload", "upload_ret">>)
          /\ UNCHANGED c2s
    /\ done_len' = 0
    /\ UNCHANGED s2c
    /\ UNCHANGED <<config_vars, client_vars, listen_vars, scan_vars, cli_vars>>

\* done_buffer.len() >= done_marker.len() and the last done_marker.len()
\* bytes of done_buffer, after the n bytes just read, are UPLOAD_DONE
DoneMarkerSeen(n) ==
    /\ done_len + n >= UPLOAD_DONE_LEN
    /\ LastRead(c2s, n).k = "UPLOAD_DONE"

SrvUploadReadErr_Aborts == Returns("Err", <<"upload_ret">>)

\* Err(e) in the upload loop: logged, return Ok(()); handle_client goes on
\* to handle_download_test
SrvUploadReadErr ==
    /\ spc' = "download_start"
    /\ slog' = Append(slog, "upload_ret")
    /\ UNCHANGED sres

\* one turn of the upload loop: stream.read(&mut buffer)
SrvUploadRead ==
    /\ spc = "upload_loop"
    /\ \/ \E n \in 1..Min(srv_chunk_size, Avail(c2s)) :
               /\ c2s' = Take(c2s, n)
               /\ done_len' = done_len + n
               /\ IF DoneMarkerSeen(n)
                     THEN /\ spc' = "download_start"
                          /\ slog' = Append(slog, "upload_ret")
                     ELSE UNCHANGED <<spc, slog>>
               /\ UNCHANGED <<faults, sres, serrs>>
       \/ \* Ok(0) => break
          /\ ClientClosed /\ Avail(c2s) = 0
          /\ spc' = "download_start"
          /\ slog' = Append(slog, "upload_ret")
          /\ UNCHANGED <<c2s, done_len, faults, sres, serrs>>
       \/ \* Err
          /\ (Avail(c2s) = 0 /\ ~ClientClosed) \/ MayInject
          /\ Fault
          /\ ServerErr("read")
          /\ SrvUploadReadErr
          /\ UNCHANGED <<c2s, done_len>>
    /\ UNCHANGED s2c
    /\ UNCHANGED <<config_vars, client_vars, listen_vars, scan_vars, cli_vars>>

\* handle_download_test begins: read_exact(&mut start_buf), which must be
\* DOWNLOAD_START, then set_write_timeout(..) with `?`
SrvDownloadStart ==
    /\ spc = "download_start"
    /\ \/ /\ Avail(c2s) >= DOWNLOAD_START_LEN
          /\ c2s' = Take(c2s, DOWNLOAD_START_LEN)
          /\ IF Whole(c2s, DOWNLOAD_START_LEN).k = "DOWNLOAD_START"
                THEN \/ /\ spc' = "download_loop"
                        /\ slog' = Append(slog, "download")
                        /\ UNCHANGED <<sres, faults, serrs>>
                     \/ /\ MayInject /\ Fault
                        /\ ServerErr("sockopt")
                        /\ Returns("Err", <<"download", "download_ret">>)
                ELSE /\ ServerErr("mismatch")
                     /\ Returns("Err", <<"download", "download_ret">>)
                     /\ UNCHANGED faults
       \/ /\ Avail(c2s) < DOWNLOAD_START_LEN \/ MayInject
          /\ Fault
          /\ ServerErr("read")
          /\ Returns("Err", <<"download", "download_ret">>)
          /\ UNCHANGED c2s
    /\ UNCHANGED <<done_len, s2c>>
    /\ UNCHANGED <<config_vars, client_vars, listen_vars, scan_vars, cli_vars>>

SrvDownloadWriteErr_Fails == Returns("Err", <<"download_ret">>)

\* Err(e) of write_message in the download loop: TimedOut, BrokenPipe and
\* ConnectionReset break, any other kind is logged and breaks; Ok(()) follows
SrvDownloadWriteErr == Returns("Ok", <<"download_ret">>)

\* one turn of the download loop: write_message(stream, &random_buffer)
SrvDownloadWrite ==
    /\ spc = "download_loop"
    /\ \/ /\ ~ClientClosed
          /\ DataAvail(s2c) < SockBuf
          /\ s2c' = Write(s2c, Payload(srv_chunk_size))
          /\ UNCHANGED <<spc, sres, slog, faults, serrs>>
       \/ \* the client is gone: BrokenPipe or ConnectionReset
          /\ ClientClosed
          /\ ServerErr("write")
          /\ SrvDownloadWriteErr
          /\ UNCHANGED <<s2c, faults>>
       \/ \* the client does not read for a second, or another error
          /\ ~ClientClosed
          /\ DataAvail(s2c) >= SockBuf \/ MayInject
          /\ Fault
          /\ ServerErr("write")
          /\ SrvDownloadWriteErr
          /\ UNCHANGED s2c
    /\ UNCHANGED <<done_len, c2s>>
    /\ UNCHANGED <<config_vars, client_vars, listen_vars, scan_vars, cli_vars>>

\* the errors a connect attempt can fail with
ConnectErrors == {"refused", "timedout", "unreachable"}

SessionNext ==
    \/ \E e \in ConnectErrors : ConnectFails(e)
    \/ ConnectOk
    \/ PingPrime
    \/ PingSend
    \/ PingRecv
    \/ PingDone
    \/ UploadStart
    \/ UploadWrite
    \/ UploadDone
    \/ Pause
    \/ DownloadStart
    \/ DownloadRead
    \/ DownloadEnds
    \/ Shutdown
    \/ SrvPingEnter
    \/ SrvPingRead
    \/ SrvUploadStart
    \/ SrvUploadRead
    \/ SrvDownloadStart
    \/ SrvDownloadWrite

SpecSession == SessionInit /\ [][SessionNext]_vars

\* the steps of the thread running contact()
ClientNext ==
    \/ \E e \in ConnectErrors : ConnectFails(e)
    \/ ConnectOk
    \/ PingPrime
    \/ PingSend
    \/ PingRecv
    \/ PingDone
    \/ UploadStart
    \/ UploadWrite
    \/ UploadDone
    \/ Pause
    \/ DownloadStart
    \/ DownloadRead
    \/ DownloadEnds
    \/ Shutdown

\* contact() against a peer that accepts and then does nothing: only the
\* client's thread takes steps, and it is scheduled again and again; each of
\* its blocking calls has a timeout (connect_timeout, set_read_timeout,
\* set_write_timeout)
SpecSilent == SessionInit /\ [][ClientNext]_vars /\ WF_vars(ClientNext)

\* the steps of the worker thread running handle_client
WorkerNext ==
    \/ SrvPingEnter
    \/ SrvPingRead
    \/ SrvUploadStart
    \/ SrvUploadRead
    \/ SrvDownloadStart
    \/ SrvDownloadWrite

\* a step of either thread in which no I/O call returns an error
QuietNext == SessionNext /\ faults = 0 /\ faults' = 0

\* a session that no fault is put into: every connect, read and write goes
\* through as long as either thread can take a step without an error.  The
\* timeouts (30 s on the worker's reads, 1 s on its download writes, the
\* client's own) are long against a step, so a blocked call times out only
\* once neither thread can go on; what follows the first timeout is as in
\* SpecSession.  Both threads are scheduled again and again.
NoFaultNext ==
    \/ SessionNext /\ faults' = faults
    \/ SessionNext /\ faults = 0 /\ faults' = 1 /\ ~ENABLED QuietNext

\* how far the byte targets tried go beyond the length of a PONG
MaxOver == 1

\* a client with retries = 1 and a byte target meets a listening server.
\* run_ping_test writes ping_count + 1 PINGs and reads ping_count PONGs, so
\* the download loop finds one PONG unread: the targets go beyond its length
NoFaultInit ==
    /\ ListenStart(1)
    /\ \E N \in 0..MaxPings, D \in 0..(PING_RESPONSE_LEN + MaxOver),
          C \in 1..MaxChunk, SC \in {1, MaxChunk} :
             SessionStart(1, N, D, 1, C, SC)
    /\ ScanOff
    /\ CliOff

SpecNoFault ==
    /\ NoFaultInit
    /\ [][NoFaultNext]_vars
    /\ WF_vars(ClientNext /\ NoFaultNext)
    /\ WF_vars(WorkerNext /\ NoFaultNext)

\* return self.run_speed_test(&mut stream): whatever the session yields is
\* what contact() returns
SpeedTestFails_Reconnects(ph) ==
    /\ cpc' = "connect"
    /\ UNCHANGED cres

\* return self.run_speed_test(&mut stream) with an Err of a phase: the
\* `return` leaves the loop of contact()
SpeedTestFails(ph) == Return("TestExecutionError", ph, "io")

RunSpeedTest ==
    /\ cpc = "ping_prime"
    /\ \/ Return("Ok", "", "")
       \/ \E ph \in {"Ping test failed", "Upload test failed",
                      "Download test failed"} :
              SpeedTestFails(ph)
       \/ Return("ConnectionError", "", "shutdown")
    /\ UNCHANGED cerrs
    /\ UNCHANGED <<attempt, attempts, errs, i, successful_pings, ping_times,
                   bytes_sent, bytes_received, csent>>
    /\ UNCHANGED <<ping_report, slept, netbeat_report>>
    /\ UNCHANGED <<config_vars, server_vars, c2s, s2c, faults, listen_vars, scan_vars, cli_vars>>

ContactNext ==
    \/ ContactNoAttempt
    \/ \E e \in ConnectErrors : ConnectFails(e)
    \/ ConnectOk
    \/ RunSpeedTest

SpecContact == ContactInit /\ [][ContactNext]_vars

(***************************************************************************)
(* handle_upload_test's read loop over the bytes themselves                *)
(***************************************************************************)
MaxPayload == 2
MaxBuf == 20

\* b"NETBEAT_UPLOAD_DONE"
UPLOAD_DONE == <<78, 69, 84, 66, 69, 65, 84, 95, 85, 80, 76, 79, 65, 68, 95,
                 68, 79, 78, 69>>

\* the byte values the payloads are built from: one that is in no sentinel
\* and the last byte of UPLOAD_DONE
PayloadBytes == {0, 69}

ShortPayloads == UNION {[1..L -> PayloadBytes] : L \in 0..MaxPayload}

\* rng.fill_bytes(&mut buffer): any bytes; the short payloads, and the
\* payloads that end with the 19 bytes of UPLOAD_DONE or with its first 17
\* ("NE", the first two bytes of the client's UPLOAD_DONE, then completes
\* the 19)
Payloads ==
    ShortPayloads \cup
    {p \o SubSeq(UPLOAD_DONE, 1, k) : p \in ShortPayloads, k \in {17, 19}}

\* the worker is in the loop, UPLOAD_START read; the client's stream is a
\* payload followed by UPLOAD_DONE
UploadLoopInit ==
    /\ ListenStart(1)
    /\ SessionOff
    /\ \E p \in Payloads : wire = p \o UPLOAD_DONE
    /\ buffer_len \in 1..MaxBuf
    /\ rd = 0
    /\ done_buffer = <<>>
    /\ last_n = 0
    /\ upc = "loop"
    /\ CliOff

DoneMarkerAtEnd_WholeBuffer(buf) == buf = UPLOAD_DONE

\* done_buffer.len() >= done_marker.len() &&
\* &done_buffer[start_pos..] == done_marker
DoneMarkerAtEnd(buf) ==
    /\ Len(buf) >= Len(UPLOAD_DONE)
    /\ SubSeq(buf, Len(buf) - Len(UPLOAD_DONE) + 1, Len(buf)) = UPLOAD_DONE

\* stream.read(&mut buffer) returns Ok(n): Ok(0) at the end of a closed
\* stream, else between 1 and buffer.len() of the bytes not yet read
UploadReadOk(n) ==
    /\ upc = "loop"
    /\ IF n = 0
       THEN /\ rd = Len(wire)
            /\ upc' = "eof"
            /\ UNCHANGED <<rd, done_buffer, last_n>>
       ELSE /\ n <= Min(buffer_len, Len(wire) - rd)
            /\ done_buffer' = done_buffer \o SubSeq(wire, rd + 1, rd + n)
            /\ rd' = rd + n
            /\ last_n' = n
            /\ upc' = IF DoneMarkerAtEnd(done_buffer') THEN "stopped" ELSE "loop"
    /\ UNCHANGED <<wire, buffer_len, listen_vars, session_vars, cli_vars>>

\* Err(e): logged, return Ok(())
UploadReadErr ==
    /\ upc = "loop"
    /\ upc' = "read_err"
    /\ UNCHANGED <<wire, rd, buffer_len, done_buffer, last_n,
                   listen_vars, session_vars, cli_vars>>

UploadLoopNext ==
    \/ \E n \in 0..MaxBuf : UploadReadOk(n)
    \/ UploadReadErr

SpecUpload == UploadLoopInit /\ [][UploadLoopNext]_vars

(***************************************************************************)
(* The process: main, run, ClientBuilder, ServerBuilder.  What contact()   *)
(* and listen() do inside is in the sections above; here they are one      *)
(* step each, with every result they can have.                             *)
(***************************************************************************)
\* how far the chunk sizes tried lie from the two limits
MaxDelta == 1

\* if size < 1024
MinChunkSize == 1024
\* if size > 1024 * 1024 * 16
MaxChunkSize == 16777216
\* DEFAULT_CHUNK_SIZE, "64KiB"
DEFAULT_CHUNK_SIZE == 65536

\* a chunk-size string, by what byte_unit::Byte::parse_str makes of it:
\* an error, or a number of bytes
ChunkStrings ==
    {[parsed |-> FALSE, size |-> 0]} \cup
    {[parsed |-> TRUE, size |-> n] :
        n \in {0, DEFAULT_CHUNK_SIZE} \cup
              UNION {{MinChunkSize - d, MinChunkSize + d,
                      MaxChunkSize - d, MaxChunkSize + d} : d \in 0..MaxDelta}}

\* the target: an IP address literal, or a host name
Targets == {"ip", "host"}
\* the data string: not given, "0", a size as "4KiB", or not a size
DataStrings == {"none", "0", "size", "bad"}
\* Cli::parse() on the arguments as a whole: they fit the grammar, they do
\* not (unknown command, a number out of its range), or --help / --version
ClapOutcomes == {"ok", "error", "help"}

NetbeatError(kind, msg) == [kind |-> kind, msg |-> msg]

validate_chunk_size_ExclusiveMin(s, err_type) ==
    LET create_error(msg) ==
            [ok |-> FALSE,
             err |-> NetbeatError(IF err_type = "server" THEN "ServerError"
                                  ELSE "ClientError", msg)]
    IN  IF ~s.parsed THEN create_error("Invalid chunk size")
        ELSE IF s.size <= MinChunkSize
             THEN create_error("Chunk size must be at least 1KiB")
        ELSE IF s.size > MaxChunkSize
             THEN create_error("Chunk size must not exceed 16MiB")
        ELSE [ok |-> TRUE, err |-> NoErr]

\* protocol::validate_chunk_size(s, err_type)
validate_chunk_size(s, err_type) ==
    LET create_error(msg) ==
            [ok |-> FALSE,
             err |-> NetbeatError(IF err_type = "server" THEN "ServerError"
                                  ELSE "ClientError", msg)]
    IN  IF ~s.parsed THEN create_error("Invalid chunk size")
        ELSE IF s.size < MinChunkSize
             THEN create_error("Chunk size must be at least 1KiB")
        ELSE IF s.size > MaxChunkSize
             THEN create_error("Chunk size must not exceed 16MiB")
        ELSE [ok |-> TRUE, err |-> NoErr]

\* cli::args::validate_chunk_size, clap's value_parser of --chunk-size
ArgsValidateChunkSize(s) ==
    /\ s.parsed
    /\ ~(s.size < MinChunkSize)
    /\ ~(s.size > MaxChunkSize)

\* cli::args::validate_data_size, clap's value_parser of --data
ArgsValidateDataSize(d) == d = "0" \/ d \in {"none", "size"}

ParseIp_Resolves(t) == TRUE

\* IpAddr::from_str(&self.target) is Ok
ParseIp(t) == t = "ip"

\* Byte::parse_str(data, false) ... .as_u64() on a data string that parses
DataBytes(d) ==
    CASE d = "none" -> NoData
      [] d = "0"    -> 0
      [] OTHER      -> MaxTarget

\* what contact() returns: Ok(report), or one of its two errors
ContactOutcomes == {"Ok", "ConnectionError", "TestExecutionError"}
\* what listen() comes to: Err from bind or from the accept loop's `?`, a
\* panic of the accept loop, or it goes on serving
ListenOutcomes == {"Err", "panic", "serving"}

CliInit ==
    /\ ListenStart(1)
    /\ SessionOff
    /\ ScanOff
    /\ \E v \in {"cli", "lib"}, c \in {"run", "serve"}, cl \in ClapOutcomes,
          t \in Targets, d \in DataStrings, ch \in ChunkStrings :
            /\ v = "lib" => cl = "ok"
            /\ c = "serve" => t = "ip" /\ d = "none"
            /\ via = v
            /\ cmd = c
            /\ argv = [clap |-> cl, target |-> t, data |-> d, chunk_size |-> ch]
            /\ ppc = IF v = "cli" THEN "parse" ELSE "chunk_size"
    /\ built = NoConfig
    /\ berr = NoErr
    /\ eres = "none"
    /\ net_used = 0
    /\ exit_code = NoExit

\* the process ends with this code
Exit(code) ==
    /\ ppc' = "exited"
    /\ exit_code' = code

\* let args = Cli::parse(): clap prints and exits by itself on --help (0)
\* and on an error (2), a value_parser's Err included
ClapParse ==
    /\ ppc = "parse"
    /\ IF argv.clap = "help" THEN Exit(0)
       ELSE IF \/ argv.clap = "error"
               \/ ~ArgsValidateChunkSize(argv.chunk_size)
               \/ cmd = "run" /\ ~ArgsValidateDataSize(argv.data)
            THEN Exit(2)
       ELSE /\ ppc' = "chunk_size"
            /\ UNCHANGED exit_code
    /\ UNCHANGED <<via, cmd, argv, built, berr, eres, net_used,
                   listen_vars, session_vars, scan_vars>>

MainOnErr_NoExit == Exit(0)

\* unwrap_or_else(|err| { eprintln!(..); std::process::exit(1) })
MainOnErr == Exit(1)

\* an Err(e) leaves run() by `?`: main exits on it; a caller of the library
\* holds the Err
Fails(e) ==
    /\ berr' = e
    /\ IF via = "cli" THEN MainOnErr
       ELSE /\ ppc' = "failed"
            /\ UNCHANGED exit_code

\* ClientBuilder::chunk_size / ServerBuilder::chunk_size
BuilderChunkSize ==
    /\ ppc = "chunk_size"
    /\ LET r == validate_chunk_size(argv.chunk_size,
                    IF cmd = "serve" THEN "server" ELSE "client")
       IN  IF r.ok
           THEN /\ ppc' = "build"
                /\ UNCHANGED <<berr, exit_code>>
           ELSE Fails(r.err)
    /\ UNCHANGED <<via, cmd, argv, built, eres, net_used,
                   listen_vars, session_vars, scan_vars>>

\* ClientBuilder::build / ServerBuilder::build
Build ==
    /\ ppc = "build"
    /\ IF cmd = "run"
       THEN IF ~ParseIp(argv.target)
            THEN /\ Fails(NetbeatError("ClientError", "Invalid IP address"))
                 /\ UNCHANGED built
            ELSE IF argv.data = "bad"
            THEN /\ Fails(NetbeatError("ClientError", "Invalid target data"))
                 /\ UNCHANGED built
            ELSE IF ~argv.chunk_size.parsed
            THEN /\ Fails(NetbeatError("ClientError", "Invalid chunk size"))
                 /\ UNCHANGED built
            ELSE /\ built' = [made |-> TRUE, data |-> DataBytes(argv.data),
                              chunk_size |-> argv.chunk_size.size]
                 /\ ppc' = "engine"
                 /\ UNCHANGED <<berr, exit_code>>
       ELSE IF ~argv.chunk_size.parsed
            THEN /\ Fails(NetbeatError("ServerError", "Invalid chunk size"))
                 /\ UNCHANGED built
            ELSE /\ built' = [made |-> TRUE, data |-> NoData,
                              chunk_size |-> argv.chunk_size.size]
                 /\ ppc' = "engine"
                 /\ UNCHANGED <<berr, exit_code>>
    /\ UNCHANGED <<via, cmd, argv, eres, net_used,
                   listen_vars, session_vars, scan_vars>>

\* client.contact()?; Ok(()): main returns and the process ends with 0
Contact ==
    /\ ppc = "engine"
    /\ cmd = "run"
    /\ net_used' = net_used + 1
    /\ \E r \in ContactOutcomes :
         IF r = "Ok"
         THEN /\ eres' = "Ok"
              /\ IF via = "cli" THEN Exit(0)
                 ELSE /\ ppc' = "done"
                      /\ UNCHANGED exit_code
              /\ UNCHANGED berr
         ELSE /\ eres' = "Err"
              /\ Fails(NetbeatError(r, IF r = "ConnectionError"
                                       THEN "Connection failed"
                                       ELSE "Test failed"))
    /\ UNCHANGED <<via, cmd, argv, built,
                   listen_vars, session_vars, scan_vars>>

\* server.listen()?: a panic of the main thread ends the process with 101
Listen ==
    /\ ppc = "engine"
    /\ cmd = "serve"
    /\ net_used' = net_used + 1
    /\ \E r \in ListenOutcomes :
         /\ eres' = r
         /\ CASE r = "Err" ->
                   Fails(NetbeatError("ConnectionError", "Connection failed"))
              [] r = "panic" ->
                   /\ IF via = "cli" THEN Exit(101)
                      ELSE /\ ppc' = "panicked"
                           /\ UNCHANGED exit_code
                   /\ UNCHANGED berr
              [] OTHER ->
                   /\ ppc' = "serving"
                   /\ UNCHANGED <<berr, exit_code>>
    /\ UNCHANGED <<via, cmd, argv, built,
                   listen_vars, session_vars, scan_vars>>

CliNext ==
    \/ ClapParse
    \/ BuilderChunkSize
    \/ Build
    \/ Contact
    \/ Listen

SpecCli == CliInit /\ [][CliNext]_vars

(***************************************************************************)
(* Properties of the accept loop and the admission counter.                *)
(***************************************************************************)
Active == {c \in Conns : conn[c] \in InHandleClient}
\* the worker thread of c has ended, normally or by a panic
WorkerEnded == {"done", "panicked", "lock_panicked"}

\* C1: in every reachable state of listen(), whatever the interleaving of
\* accepts and worker completions, 0 <= connection_count <= max_connections.
C1_CounterInRange ==
    /\ connection_count >= 0
    /\ connection_count <= max_connections

\* the counter is at the ceiling after one worker has already given its slot back
C1_Witness ==
    /\ max_connections >= 1
    /\ connection_count = max_connections
    /\ \E c \in Conns : conn[c] = "done"
    /\ \E c \in Conns : conn[c] = "rejected"

\* C2: with max_connections = K never more than K workers run handle_client;
\* a connection is admitted only below K active sessions, and the step that
\* rejects a connection changes no other connection's session, each of which
\* can still take its next step.
C2_AtMostKWorkers ==
    /\ [](Cardinality(Active) <= max_connections)
    /\ [](\A d \in Conns :
            /\ conn[d] = "ping" => ENABLED HandlePing(d)
            /\ conn[d] = "upload" => ENABLED HandleUpload(d)
            /\ conn[d] = "download" => ENABLED HandleDownload(d))
    /\ [][\A c \in Conns :
            /\ (conn[c] = "new" /\ conn'[c] = "admitted")
                   => Cardinality(Active) < max_connections
            /\ (conn[c] = "new" /\ Cardinality(Active) = max_connections
                    /\ conn'[c] # "new")
                   => /\ conn'[c] = "rejected"
                      /\ \A d \in Conns \ {c} :
                            conn'[d] = conn[d] /\ io'[d] = io[d]]_vars

\* K sessions are active, one more connection has been rejected, and a
\* session that was running then has since completed with Ok
C2_Witness ==
    /\ max_connections = MaxK
    /\ \E c \in Conns : conn[c] = "rejected"
    /\ \E c \in Conns : conn[c] = "ret_ok"
    /\ Cardinality({c \in Conns : conn[c] \in InHandleClient \cup Returned}) = MaxK

\* C3: each admitted connection is counted once, the counter equals the
\* number of admitted connections not yet decremented, and no connection
\* whose worker has ended is left undecremented.
C3_CountedOnceReleasedOnce ==
    /\ \A c \in Conns : incs[c] <= 1 /\ decs[c] <= incs[c]
    /\ connection_count = Cardinality({c \in Conns : incs[c] = 1 /\ decs[c] = 0})
    /\ \A c \in Conns : conn[c] \in WorkerEnded => decs[c] = 1

\* C4: a worker that panicked inside handle_client has given its slot back.
C4_PanicReleasesSlot ==
    \A c \in Conns : conn[c] = "panicked" => decs[c] = 1

\* C5: after a successful bind, listen() neither returns nor stops accepting
\* because of what happens on one accepted connection.
C5_OnlyBindEndsListen ==
    lpc \in {"bind", "bind_failed", "accept", "dispatch"}

\* C6: a connection accepted at capacity is dropped with no read or write on
\* it, no worker, the counter unchanged, and the loop accepts again.
C6_RejectAtCapacity ==
    [][\A c \in Conns :
          (conn[c] = "new" /\ connection_count = max_connections
               /\ conn'[c] # "new")
             => /\ conn' = [conn EXCEPT ![c] = "rejected"]
                /\ io' = io
                /\ connection_count' = connection_count
                /\ lpc' = "accept"]_vars

(***************************************************************************)
(* Properties of one session.                                              *)
(***************************************************************************)
IsPrefix(a, b) == Len(a) <= Len(b) /\ SubSeq(b, 1, Len(a)) = a

\* the sentinels of csent that are not PING, in order
RECURSIVE Sentinels(_)
Sentinels(q) ==
    IF q = <<>> THEN <<>>
    ELSE IF q[1] = "PING" THEN Sentinels(Tail(q))
         ELSE <<q[1]>> \o Sentinels(Tail(q))

Sent(k) == \E j \in 1..Len(csent) : csent[j] = k

\* C7: on each side the phases run in the order ping, upload, download, each
\* once: the client writes PING_DONE, UPLOAD_START, UPLOAD_DONE,
\* DOWNLOAD_START in this order, every PING before PING_DONE, payload only
\* between UPLOAD_START and UPLOAD_DONE, and reads download bytes only after
\* DOWNLOAD_START; the worker enters each handler only after the one before
\* it has returned.
C7_PhaseOrder ==
    /\ IsPrefix(Sentinels(csent),
                <<"PING_DONE", "UPLOAD_START", "UPLOAD_DONE", "DOWNLOAD_START">>)
    /\ \A j \in 1..Len(csent) :
          csent[j] = "PING" => \A h \in 1..j : csent[h] = "PING"
    /\ bytes_sent > 0 => Sent("UPLOAD_START")
    /\ cpc = "upload_loop" <=> (Sent("UPLOAD_START") /\ ~Sent("UPLOAD_DONE")
                                  /\ cpc # "returned")
    /\ bytes_received > 0 => Sent("DOWNLOAD_START")
    /\ IsPrefix(slog, <<"ping", "ping_ret", "upload", "upload_ret",
                        "download", "download_ret">>)

\* a session with pings in which both sides went through all three phases
C7_Witness ==
    /\ ping_count = MaxPings
    /\ cres.kind = "Ok"
    /\ sres = "Ok"
    /\ Len(slog) = 6
    /\ Sent("DOWNLOAD_START")
    /\ bytes_sent > 0 /\ bytes_received > 0

\* C8: with retries = R >= 1 and every connect attempt failing, contact()
\* returns only after exactly R attempts, never makes more than R, and
\* returns the connection error holding the error of attempt R.
C8_ExactlyRAttempts ==
    /\ attempts <= retries
    /\ (cpc = "returned" /\ retries >= 1 /\ Len(errs) = attempts)
          => /\ attempts = retries
             /\ cres.kind = "ConnectionError"
             /\ cres.cause = errs[retries]

\* three attempts failed, the last for another reason than the first
C8_Witness ==
    /\ cpc = "returned"
    /\ retries = 3
    /\ Len(errs) = 3
    /\ errs[1] # errs[3]
    /\ cres.cause = errs[3]

\* C9: with a byte target T and a buffer of any length C, neither counter
\* ever exceeds T, and when no I/O error has occurred on a served connection
\* the upload loop ends with bytes_sent = T and the download loop with
\* bytes_received = T.
C9_ExactByteTarget ==
    data # NoData =>
       /\ bytes_sent <= data
       /\ bytes_received <= data
       /\ (cpc = "pause" /\ faults = 0) => bytes_sent = data
       /\ (cpc = "shutdown" /\ faults = 0 /\ spc # "rejected")
             => bytes_received = data

\* the buffer does not divide the target and both loops have ended
C9_Witness ==
    /\ data = 3 /\ chunk_size = 2
    /\ cpc = "shutdown"
    /\ faults = 0
    /\ bytes_sent = 3 /\ bytes_received = 3
    /\ spc = "download_loop"

\* 19 bytes equal to UPLOAD_DONE end at position j of the stream
CopyEndsAt(j) ==
    /\ j >= Len(UPLOAD_DONE)
    /\ SubSeq(wire, j - Len(UPLOAD_DONE) + 1, j) = UPLOAD_DONE

C11_SilentPeerFails ==
    /\ <>(cpc = "returned")
    /\ [](cpc = "returned" /\ spc = "ping_enter" => cres.kind # "Ok")

\* C12: a ping phase that has completed reports N = ping_count pings sent and
\* S = the number of PONGs counted, with 0 <= S <= N, and for N >= 1 a loss
\* of (N - S) / N * 100 percent.
C12_LossFromCounts ==
    /\ successful_pings = Len(ping_times)
    /\ successful_pings >= 0 /\ successful_pings <= ping_count
    /\ ping_report.made =>
          /\ ping_report.ping_count = ping_count
          /\ ping_report.successful_pings = Len(ping_times)
          /\ ~ping_report.packet_loss.underflow
          /\ ping_count >= 1 =>
                /\ ping_report.packet_loss.den # 0
                /\ ping_report.packet_loss.num * ping_count =
                      (ping_count - Len(ping_times)) * 100
                         * ping_report.packet_loss.den

\* some pings of the phase were answered and some were lost
C12_Witness ==
    /\ ping_report.made
    /\ ping_report.ping_count = MaxPings
    /\ ping_report.successful_pings > 0
    /\ ping_report.successful_pings < ping_report.ping_count
    /\ ping_report.packet_loss.num = 100 * (MaxPings - ping_report.successful_pings)

\* C13: a ping phase without one successful round trip is no error: when
\* PING_DONE has been written the client has its report, with min, max and
\* average zero, and is at the upload; "Ping test failed" is returned only
\* for a failed write; and the worker's ping loop, however it ends, returns
\* into the upload handler.
C13_ZeroPingsNotAnError ==
    /\ [](cres.msg = "Ping test failed" => cres.cause = "write")
    /\ [](ping_report.made /\ ping_report.successful_pings = 0
            => /\ ping_report.min_ping = 0
               /\ ping_report.max_ping = 0
               /\ ping_report.avg_ping = 0)
    /\ [][cpc = "ping_done" /\ successful_pings = 0 /\ csent' # csent
            => /\ cpc' = "upload_start"
               /\ ping_report'.made
               /\ cres' = cres]_vars
    /\ [][spc = "ping" => spc' \in {"ping", "upload_start"}]_vars

\* no ping of two was answered in time, and both sides ran to their end
C13_Witness ==
    /\ ping_report.made
    /\ ping_report.ping_count = MaxPings
    /\ ping_report.successful_pings = 0
    /\ cres.kind = "Ok"
    /\ sres = "Ok"
    /\ Len(slog) = 6

\* the client's read of a ping response has met a hard connection error
HadHardError == \E j \in 1..Len(cerrs) : cerrs[j].kind = "hard"

\* C14: a hard connection error on the read of a ping response ends the ping
\* loop and nothing else: the step that meets it leaves contact() running
\* at the write of PING_DONE, no further iteration is made, and once
\* PING_DONE is written run_ping_test has returned its report and the client
\* is at the upload.
C14_HardErrorEndsPingLoopOnly ==
    /\ [][~HadHardError /\ HadHardError'
            => /\ cpc = "ping_recv"
               /\ cpc' = "ping_done"
               /\ cres' = cres
               /\ csent' = csent]_vars
    /\ [](HadHardError => cpc \notin {"ping_prime", "ping_send", "ping_recv"})
    /\ [][HadHardError => i' = i /\ successful_pings' = successful_pings]_vars
    /\ [][HadHardError /\ cpc = "ping_done" /\ csent' # csent
            => /\ ping_report'.made
               /\ cpc' = "upload_start"
               /\ cres' = cres]_vars
    /\ [](HadHardError /\ cres.msg = "Ping test failed" => cres.cause = "write")

\* the first of two pings met a hard error, the second was never sent, and
\* the upload and the download ran
C14_Witness ==
    /\ HadHardError
    /\ ping_count = MaxPings
    /\ i = 1
    /\ ping_report.made
    /\ cres.kind = "Ok"
    /\ bytes_sent > 0
    /\ bytes_received > 0

LastErr(q) == q[Len(q)]
\* the client's I/O call of this step returned Err
ErrNow == Len(cerrs') = Len(cerrs) + 1

\* C15: a failed write of the upload phase and a failed read of the download
\* phase end the session at once: the step returns from contact() with the
\* test-execution error naming the phase and writes nothing, and after
\* contact() has returned the client writes nothing more, so no start
\* sentinel of a later phase follows.
C15_TransferErrorsAreFatal ==
    /\ [][ErrNow /\ LastErr(cerrs').at \in {"upload_start", "upload_loop"}
            => /\ LastErr(cerrs').kind = "write"
               /\ cpc' = "returned"
               /\ cres'.kind = "TestExecutionError"
               /\ cres'.msg = "Upload test failed"
               /\ csent' = csent
               /\ bytes_sent' = bytes_sent]_vars
    /\ [][ErrNow /\ LastErr(cerrs').at \in {"download_start", "download_loop"}
            => /\ LastErr(cerrs').kind =
                     (IF cpc = "download_loop" THEN "read" ELSE "write")
               /\ cpc' = "returned"
               /\ cres'.kind = "TestExecutionError"
               /\ cres'.msg = "Download test failed"
               /\ csent' = csent
               /\ bytes_received' = bytes_received]_vars
    /\ [][cpc = "returned"
            => /\ cpc' = "returned" /\ cres' = cres
               /\ csent' = csent /\ cerrs' = cerrs
               /\ bytes_sent' = bytes_sent
               /\ bytes_received' = bytes_received]_vars
    /\ [](cres.msg = "Upload test failed" => ~Sent("DOWNLOAD_START"))

\* a read of the download loop failed after part of the target had arrived
C15_Witness ==
    /\ cpc = "returned"
    /\ cres.kind = "TestExecutionError"
    /\ cres.msg = "Download test failed"
    /\ LastErr(cerrs) = [at |-> "download_loop", kind |-> "read"]
    /\ bytes_received > 0
    /\ bytes_received < data

\* C16: the phases run by duration when the byte target is absent or zero,
\* and by byte count only for a target above zero: with a duration above
\* zero and no target or a zero target the upload loop has written the
\* buffer at least once when it ends, and with a target above zero the
\* counters stay within the target.
C16_ZeroTargetRunsByDuration ==
    /\ (data \in {NoData, 0} /\ time > 0 /\ Sent("UPLOAD_DONE"))
          => bytes_sent > 0
    /\ (data \in {NoData, 0} /\ time > 0 /\ cres.kind = "Ok"
           /\ ~ServerClosed /\ cerrs = <<>>)
          => bytes_received > 0
    /\ data > 0 => bytes_sent <= data /\ bytes_received <= data

(***************************************************************************)
(* Properties of configuration and of the process.                         *)
(***************************************************************************)
\* the chunk-size string passed in is a size within the two limits
ChunkInRange ==
    /\ argv.chunk_size.parsed
    /\ 1024 <= argv.chunk_size.size
    /\ argv.chunk_size.size <= 16 * 1024 * 1024
\* the builder's chunk_size() has been called and has returned
ChunkSizeCalled == ppc \notin {"off", "parse", "chunk_size"} /\ exit_code # 2
                   /\ ~(via = "cli" /\ argv.clap = "help")
ChunkSizeMessages == {"Invalid chunk size", "Chunk size must be at least 1KiB",
                      "Chunk size must not exceed 16MiB"}

\* C17: validate_chunk_size accepts exactly the strings that parse to a size
\* s with 1024 <= s <= 16 MiB, both limits included; every other string is
\* rejected with one of the chunk-size messages, as a ServerError when the
\* server's builder asks and as a ClientError when the client's builder asks.
C17_ChunkSizeRange ==
    ChunkSizeCalled =>
        IF ChunkInRange
        THEN /\ ppc # "chunk_size"
             /\ berr.msg \notin ChunkSizeMessages
        ELSE /\ ppc = "failed"
             /\ berr.msg \in ChunkSizeMessages
             /\ berr.kind = IF cmd = "serve" THEN "ServerError"
                            ELSE "ClientError"
             /\ built = NoConfig

\* the server's builder took the lower limit itself and build() kept it
C17_Witness ==
    /\ ChunkSizeCalled
    /\ cmd = "serve"
    /\ argv.chunk_size = [parsed |-> TRUE, size |-> 1024]
    /\ built # NoConfig
    /\ built.chunk_size = 1024

\* the field an error message names
FieldNamed(msg) ==
    CASE msg = "Invalid IP address"  -> "address"
      [] msg = "Invalid target data" -> "data"
      [] msg \in ChunkSizeMessages   -> "chunk_size"
      [] OTHER                       -> "none"

\* the fields of the client's configuration that are not valid
InvalidFields ==
    (IF argv.target # "ip" THEN {"address"} ELSE {}) \cup
    (IF argv.data = "bad" THEN {"data"} ELSE {}) \cup
    (IF ~ChunkInRange THEN {"chunk_size"} ELSE {})

\* C18: a client configuration with an address that is no IP address, a
\* data string that is no size or a chunk size that is not valid never
\* leads to a socket being opened, and once the builder has been through it
\* the builder has returned a ClientError whose message names a field that
\* is not valid.
C18_InvalidConfigNeverConnects ==
    (cmd = "run" /\ InvalidFields # {}) =>
        /\ net_used = 0
        /\ built = NoConfig
        /\ eres = "none"
        /\ (via = "lib" /\ ppc \notin {"chunk_size", "build"}) =>
              /\ ppc = "failed"
              /\ berr.kind = "ClientError"
              /\ FieldNamed(berr.msg) \in InvalidFields

\* a host name as target was turned down by build(), no socket opened
C18_Witness ==
    /\ cmd = "run"
    /\ via = "lib"
    /\ argv.target = "host"
    /\ argv.data = "bad"
    /\ ppc = "failed"
    /\ FieldNamed(berr.msg) = "address"
    /\ net_used = 0

\* clap turns the command line down: it does not fit the grammar, or the
\* chunk size or the data size is not one the value parsers take
ParseFails ==
    /\ argv.clap # "help"
    /\ \/ argv.clap = "error"
       \/ ~ChunkInRange
       \/ cmd = "run" /\ argv.data = "bad"

\* C20: the process started from main ends with exit code 2 when clap turns
\* the command line down, with 1 when the builder, contact() or listen()
\* returned an Err, and with 0 when the command succeeded (contact()
\* returned Ok, or clap printed the help that was asked for); a command line
\* that clap turns down never reaches the builder or the network.
C20_ExitCodes ==
    /\ (via = "cli" /\ ppc = "exited") =>
          /\ ParseFails => exit_code = 2
          /\ berr # NoErr => exit_code = 1
          /\ (eres = "Ok" \/ argv.clap = "help") => exit_code = 0
    /\ (via = "cli" /\ ParseFails) =>
          /\ ppc \in {"parse", "exited"}
          /\ berr = NoErr /\ net_used = 0
    /\ (via = "cli" /\ ppc # "exited") => exit_code = NoExit

\* contact() has returned an Err to main and the process has ended with 1
C20_Witness ==
    /\ via = "cli"
    /\ cmd = "run"
    /\ ppc = "exited"
    /\ eres = "Err"
    /\ berr.kind = "TestExecutionError"
    /\ exit_code = 1

(***************************************************************************)
(* The session as a whole.                                                 *)
(***************************************************************************)
\* contact() has returned Ok with the counts of a full session
SessionComplete ==
    /\ cpc = "returned"
    /\ cres.kind = "Ok"
    /\ ping_report # NoReport
    /\ ping_report.ping_count = ping_count
    /\ bytes_sent = data
    /\ bytes_received = data

\* C19: when the listener admits the client, every connect succeeds and no
\* fault is put into the session, a client with byte target T = data and
\* ping_count = N comes to return Ok with a report of N pings, T bytes
\* uploaded and T bytes downloaded, and the worker comes to return.
C19_FaultFreeSessionCompletes ==
    (data # NoData) =>
        \/ <>(spc = "rejected" \/ errs # <<>>)
        \/ <>SessionComplete /\ <>(spc = "returned")

(***************************************************************************)
(* The ping phase, turn by turn.                                           *)
(***************************************************************************)
PingPlaces == {"ping_prime", "ping_send", "ping_recv", "ping_done"}
\* the PINGs written so far
NumPings == Cardinality({j \in 1..Len(csent) : csent[j] = "PING"})
\* the reads of a response that ended in a timeout (or another soft error)
NumTimedOut == Cardinality({j \in 1..Len(cerrs) : cerrs[j].kind = "soft"})
\* the ping phase has met no error but timeouts on the read of a response
OnlyTimeouts ==
    \A j \in 1..Len(cerrs) :
        cerrs[j].at \in PingPlaces => cerrs[j].kind = "soft"

\* C21: as long as the ping phase meets nothing but read timeouts, every
\* iteration writes its one PING whether or not earlier reads timed out: with
\* the priming PING, i PINGs are written before iteration i writes and i + 1
\* after; once PING_DONE is written there are ping_count + 1 PINGs and one
\* PING_DONE after them, and each iteration was either counted as successful
\* or timed out, never both and never twice.
C21_TimeoutIsALostPing ==
    OnlyTimeouts =>
        /\ cpc = "ping_send" => NumPings = i /\ i <= ping_count
        /\ cpc = "ping_recv" => NumPings = i + 1 /\ i <= ping_count
        /\ cpc = "ping_done" => NumPings = ping_count + 1
        /\ cpc \in {"ping_send", "ping_recv"} =>
              successful_pings + NumTimedOut = i - 1
        /\ Sent("PING_DONE") =>
              /\ NumPings = ping_count + 1
              /\ Cardinality({j \in 1..Len(csent) : csent[j] = "PING_DONE"}) = 1
              /\ csent[ping_count + 2] = "PING_DONE"
              /\ successful_pings + NumTimedOut = ping_count
              /\ ping_report.made
              /\ ping_report.successful_pings = ping_count - NumTimedOut

\* the first of two responses timed out, the second ping was sent all the
\* same and answered, and PING_DONE followed
C21_Witness ==
    /\ ping_count = MaxPings
    /\ OnlyTimeouts
    /\ NumTimedOut = 1
    /\ cerrs[1].at = "ping_recv"
    /\ successful_pings = ping_count - 1
    /\ NumPings = ping_count + 1
    /\ Sent("PING_DONE")

\* the iterations after which the client has slept
SleptAfter == {slept[j] : j \in 1..Len(slept)}

\* C22: with ping_count = N, once iteration j of the ping loop is over (and
\* no hard error has broken the loop), the inter-ping delay has been taken
\* after it exactly when j is not the last iteration: after each of
\* 1..N-1, not after N.
C22_DelayBetweenIterations ==
    ~HadHardError =>
        \A j \in 1..ping_count :
            i > j => (j \in SleptAfter <=> j < ping_count)

(***************************************************************************)
(* The worker closure against any peer: connection 1 has been admitted and *)
(* dispatched, and the peer has written some frames and is then silent or  *)
(* gone.  The listener keeps accepting beside it.                          *)
(***************************************************************************)
\* the frames a peer writes before PING_DONE, at most
MaxFrames == 2

\* n bytes that are no sentinel
Junk(n) == Payload(n)

RECURSIVE WriteAll(_, _)
\* the stream after the messages of ms have been written to ch, in order
WriteAll(ch, ms) ==
    IF ms = <<>> THEN ch ELSE WriteAll(Write(ch, ms[1]), Tail(ms))

\* what a peer can write in the ping phase: PINGs and twelve bytes of
\* anything else, in any order
PingFrames ==
    UNION {[1..n -> {Msg("PING", 0), Junk(PING_MESSAGE_LEN)}] : n \in 0..MaxFrames}

\* what follows: the client's messages in their order, each start signal
\* possibly replaced by as many bytes of something else, cut anywhere
TailFrames ==
    {SubSeq(<<Msg("PING_DONE", 0), us, Payload(u), Msg("UPLOAD_DONE", 0), ds>>, 1, n) :
        us \in {Msg("UPLOAD_START", 0), Junk(UPLOAD_START_LEN)},
        u \in 0..1,
        ds \in {Msg("DOWNLOAD_START", 0), Junk(DOWNLOAD_START_LEN)},
        n \in 0..5}

\* the k-th PING written carries id k
Numbered(fs) ==
    [j \in 1..Len(fs) |-> IF fs[j].k = "PING" THEN [fs[j] EXCEPT !.id = j] ELSE fs[j]]

\* listen() has bound, admitted connection 1 below capacity and spawned its
\* worker, which is about to call handle_client
WorkerInit ==
    /\ lpc = "accept"
    /\ max_connections = 1
    /\ connection_count = 1
    /\ poisoned = FALSE
    /\ conn = [c \in Conns |-> IF c = 1 THEN "ping" ELSE "new"]
    /\ cur = 0
    /\ io = [c \in Conns |-> 0]
    /\ incs = [c \in Conns |-> IF c = 1 THEN 1 ELSE 0]
    /\ decs = [c \in Conns |-> 0]
    /\ \E ps \in PingFrames, ts \in TailFrames, SC \in {1, MaxChunk},
          gone \in BOOLEAN :
          LET fs == Numbered(ps \o ts) IN
             /\ c2s = WriteAll(<<>>, fs)
             /\ csent = [j \in 1..Len(fs) |-> fs[j].k]
             /\ srv_chunk_size = SC
             /\ cpc = IF gone THEN "returned" ELSE "off"
    /\ retries = 0 /\ ping_count = 0 /\ data = 0 /\ time = 0 /\ chunk_size = 1
    /\ attempt = 0 /\ attempts = 0 /\ errs = <<>>
    /\ cres = [kind |-> "none", msg |-> "", cause |-> ""]
    /\ i = 0 /\ successful_pings = 0 /\ ping_times = <<>>
    /\ bytes_sent = 0 /\ bytes_received = 0
    /\ ping_report = NoReport /\ cerrs = <<>>
    /\ slept = <<>> /\ netbeat_report = NoReport
    /\ spc = "ping_enter" /\ sres = "none" /\ done_len = 0 /\ serrs = <<>>
    /\ s2c = <<>> /\ slog = <<>>
    /\ faults = 0
    /\ ScanOff
    /\ CliOff

\* let result = handle_client(..); if let Err(e) = result { logger.error(..) }
\* (the error line is an eprintln!, which panics when stderr cannot be written)
WorkerReturns ==
    /\ spc = "returned"
    /\ conn[1] \in InHandleClient
    /\ \/ conn' = [conn EXCEPT ![1] = IF sres = "Ok" THEN "ret_ok" ELSE "ret_err"]
       \/ /\ sres = "Err"
          /\ conn' = [conn EXCEPT ![1] = "panicked"]
    /\ UNCHANGED <<lpc, max_connections, connection_count, poisoned, cur, io,
                   incs, decs>>
    /\ UNCHANGED <<session_vars, scan_vars, cli_vars>>

ClosureNext ==
    \/ conn[1] \in InHandleClient /\ WorkerNext
    \/ WorkerReturns
    \/ spc # "returned" /\ WorkerPanics(1)
    \/ Release(1)
    \/ Reject(2)

SpecWorker == WorkerInit /\ [][ClosureNext]_vars

(***************************************************************************)
(* The worker's handlers, whatever the peer wrote.                         *)
(***************************************************************************)
\* the PONGs the worker has written (nobody reads them here)
PongsSent == Cardinality({j \in 1..Len(s2c) : s2c[j].k = "PONG"})
\* the whole PING frames the worker has not read yet
PingsLeft ==
    Cardinality({j \in 1..Len(c2s) :
                    c2s[j].k = "PING" /\ c2s[j].n = PING_MESSAGE_LEN})
\* this step notes an error of that kind
NotesErr(kind) ==
    /\ Len(serrs') = Len(serrs) + 1
    /\ serrs'[Len(serrs')].kind = kind

\* one step taken while the worker is in the ping loop, by the frame read
PingTurn ==
    LET m == Whole(c2s, PING_MESSAGE_LEN)
        read == c2s' # c2s
    IN  spc = "ping" =>
          /\ read /\ m.k = "PING" =>
                /\ spc' = "ping"
                /\ \/ s2c' = Append(s2c, Msg("PONG", m.id))
                   \/ s2c' = s2c /\ NotesErr("write")
          /\ read /\ m.k \notin {"PING", "PING_DONE"} =>
                s2c' = s2c /\ spc' = "ping" /\ serrs' = serrs
          /\ spc' # "ping" =>
                /\ s2c' = s2c
                /\ \/ read /\ m.k = "PING_DONE"
                   \/ ~read /\ NotesErr("read")
          /\ ~read => s2c' = s2c

\* C23: in the server ping phase, whatever 12-byte frames arrive: a PING is
\* answered with one PONG (unless the write of that PONG fails), a frame
\* that is neither PING nor PING_DONE brings no reply and no exit, the loop
\* is left only on PING_DONE or on a read error, and the PONGs sent never
\* exceed the PING frames received.
C23_PingFramesAnswered ==
    /\ [](PongsSent <= NumPings - PingsLeft)
    /\ [][PingTurn]_vars

\* junk, then a PING that was answered, then PING_DONE: the loop was left
\* without an error
C23_Witness ==
    /\ Len(csent) >= 3
    /\ csent[1] = "DATA" /\ csent[2] = "PING" /\ csent[3] = "PING_DONE"
    /\ spc = "upload_start"
    /\ serrs = <<>>
    /\ PongsSent = 1

\* the worker has met an error of that kind at that place
MetErr(at, kind) == \E j \in 1..Len(serrs) : serrs[j] = [at |-> at, kind |-> kind]
\* the handlers entered so far
Entered(h) == \E j \in 1..Len(slog) : slog[j] = h
\* the worker thread is over
WorkerOver == conn[1] \notin InHandleClient \cup Returned

\* C24: after a read error in the server ping phase the worker goes on to
\* the upload handler (handle_ping_test returned Ok, handle_client is not
\* failed by it), and once the worker thread is over the admission counter
\* has been decremented for the connection.
C24_PingReadErrorAbortsPhaseOnly ==
    MetErr("ping", "read") =>
        /\ spc = "upload_start" \/ Entered("upload")
        /\ WorkerOver => decs[1] = 1

\* C25: once a read of the server's upload phase has failed, the worker
\* does not enter the download handler on that connection.
C25_UploadReadErrorAbortsSession ==
    MetErr("upload_start", "read") \/ MetErr("upload_loop", "read") =>
        ~Entered("download")

\* a start signal read by the worker was not the expected one
StartMismatch ==
    MetErr("upload_start", "mismatch") \/ MetErr("download_start", "mismatch")

\* C26: when the bytes read for UPLOAD_START or for DOWNLOAD_START differ
\* from the signal, handle_client returns an error, no byte of download
\* payload is written, and once the worker thread is over the counter has
\* been decremented for the connection.
C26_StartMismatchFailsConnection ==
    StartMismatch =>
        /\ spc = "returned" /\ sres = "Err"
        /\ DataAvail(s2c) = 0
        /\ WorkerOver => decs[1] = 1

\* one step taken while the worker is in the download loop: the buffer is
\* written once more, or the write fails and the handler returns Ok(())
DownloadTurn ==
    spc = "download_loop" =>
        \/ /\ spc' = "download_loop"
           /\ serrs' = serrs
           /\ s2c' \in {s2c, Write(s2c, Payload(srv_chunk_size))}
        \/ /\ NotesErr("write")
           /\ s2c' = s2c
           /\ spc' = "returned" /\ sres' = "Ok"

\* C27: having read DOWNLOAD_START (and set the write timeout) the worker
\* writes its buffer again and again until a write fails; the first write
\* failure, of any kind, ends the phase and handle_download_test returns
\* Ok(()), never an error.
C27_WriteFailureEndsDownloadOk ==
    /\ [](MetErr("download_loop", "write") => spc = "returned" /\ sres = "Ok")
    /\ [][DownloadTurn]_vars

\* the worker wrote payload, a write failed, and handle_client returned Ok
C27_Witness ==
    /\ MetErr("download_loop", "write")
    /\ DataAvail(s2c) > srv_chunk_size
    /\ spc = "returned" /\ sres = "Ok"

(***************************************************************************)
(* The end of the client's session.                                        *)
(***************************************************************************)
\* this step notes a client I/O error of that kind
ClientNotesErr(kind) ==
    /\ Len(cerrs') = Len(cerrs) + 1
    /\ cerrs'[Len(cerrs')].kind = kind

\* a step in which the byte-targeted read loop is left
DownloadLoopLeft ==
    cpc = "download_loop" /\ ~UseTime /\ cpc' # "download_loop" =>
        /\ bytes_received' = bytes_received
        /\ \/ bytes_received = TargetBytes /\ cpc' = "shutdown"
           \/ /\ bytes_received < TargetBytes
              /\ ServerClosed /\ Avail(s2c) = 0
              /\ cpc' = "shutdown" /\ cerrs' = cerrs
           \/ /\ bytes_received < TargetBytes
              /\ ClientNotesErr("read")
              /\ cpc' = "returned" /\ cres'.kind = "TestExecutionError"

\* C28: in a download with byte target T, bytes_received never exceeds T
\* whatever the sizes of the partial reads, and the read loop is left only
\* with bytes_received = T, on a read of zero bytes (the worker has closed
\* and nothing is left to read), or on a read error.
C28_DownloadNeverOvershoots ==
    /\ [](~UseTime => bytes_received <= TargetBytes)
    /\ [][DownloadLoopLeft]_vars

\* a target that is no multiple of the buffer, met exactly
C28_Witness ==
    /\ data = MaxTarget /\ chunk_size = 2
    /\ cpc = "shutdown"
    /\ bytes_received = data

\* C29: a session whose three phases completed ends with contact()
\* returning Ok with the NetbeatReport made of the three phase reports, and
\* a NetbeatReport has been emitted only if contact() returns Ok.
C29_ReportOnlyForSuccess ==
    cpc = "returned" =>
        /\ netbeat_report.made => cres.kind = "Ok"
        /\ cres.kind = "Ok" =>
              netbeat_report = [made |-> TRUE, ping |-> ping_report,
                                upload |-> bytes_sent,
                                download |-> bytes_received]

\* a connect attempt has succeeded
Connected == attempts > Len(errs)

\* C30: once a connect attempt has succeeded, contact() makes no further
\* connect attempt, whatever the session comes to (a socket option that
\* cannot be set, a phase that fails, a shutdown that fails, success), and
\* what it returns is that outcome of the session.
C30_NoConnectAfterSuccess ==
    /\ [](attempts <= Len(errs) + 1)
    /\ [](Connected /\ cpc = "returned" =>
             \/ cres.kind \in {"Ok", "TestExecutionError"}
             \/ cres.kind = "ConnectionError" /\ cres.cause \in {"sockopt", "shutdown"})
    /\ [][Connected => attempts' = attempts /\ errs' = errs /\ attempt' = attempt]_vars

\* the second attempt connected, the session failed, and a third attempt
\* was still allowed by retries
C30_Witness ==
    /\ retries = 3 /\ Len(errs) = 1 /\ attempts = 2
    /\ cpc = "returned"
    /\ cres.kind = "TestExecutionError"

\* C37: with retries = 0, contact() calls connect_timeout not once and
\* returns the client error "All connection attempts failed", not a
\* connection error.
C37_ZeroRetriesClientError ==
    retries = 0 =>
        /\ attempts = 0 /\ errs = <<>>
        /\ cpc \in {"connect", "returned"}
        /\ cpc = "returned" =>
              cres = [kind |-> "ClientError",
                      msg |-> "All connection attempts failed", cause |-> ""]

\* contact() has returned with retries = 0
C37_Witness == retries = 0 /\ cpc = "returned"

(***************************************************************************)
(* run_ping_test against any peer: the connection is made, and the peer    *)
(* has written some twelve-byte responses and is then silent or gone.      *)
(***************************************************************************)
\* what a peer can answer with: PONGs and twelve bytes of anything else
PongFrames ==
    UNION {[1..n -> {Msg("PONG", 0), Junk(PING_RESPONSE_LEN)}] : n \in 0..MaxFrames}

\* contact() has connected and run_speed_test is about to call run_ping_test
PingInit ==
    /\ ListenStart(1)
    /\ \E N \in 0..MaxPings, rs \in PongFrames, gone \in BOOLEAN :
          /\ ping_count = N
          /\ s2c = WriteAll(<<>>, rs)
          /\ spc = IF gone THEN "returned" ELSE "off"
    /\ retries = 1 /\ data = 0 /\ time = 1 /\ chunk_size = 1 /\ srv_chunk_size = 1
    /\ cpc = "ping_prime" /\ attempt = 1 /\ attempts = 1 /\ errs = <<>>
    /\ cres = [kind |-> "none", msg |-> "", cause |-> ""]
    /\ i = 0 /\ successful_pings = 0 /\ ping_times = <<>>
    /\ bytes_sent = 0 /\ bytes_received = 0
    /\ ping_report = NoReport /\ cerrs = <<>>
    /\ slept = <<>> /\ netbeat_report = NoReport
    /\ sres = "none" /\ done_len = 0 /\ serrs = <<>>
    /\ c2s = <<>> /\ csent = <<>> /\ slog = <<>>
    /\ faults = 0
    /\ ScanOff
    /\ CliOff

\* the steps of run_ping_test
PingNext ==
    \/ PingPrime
    \/ PingSend
    \/ PingRecv
    \/ PingDone

SpecPing == PingInit /\ [][PingNext]_vars

\* a step of run_ping_test, by what it does to the samples
SampleTurn ==
    LET m == Whole(s2c, PING_RESPONSE_LEN)
        read == s2c' # s2c
    IN  /\ ping_times' # ping_times =>
              /\ cpc = "ping_recv" /\ read /\ m.k = "PONG"
              /\ Len(ping_times') = Len(ping_times) + 1
              /\ successful_pings' = successful_pings + 1
        /\ read /\ m.k # "PONG" =>
              successful_pings' = successful_pings /\ ping_times' = ping_times
        /\ successful_pings' # successful_pings => ping_times' # ping_times

\* C38: the successful-ping count is the number of round-trip samples, at
\* the end of the ping phase as all along; a sample is pushed only for
\* twelve bytes that are PONG, and twelve bytes of anything else leave
\* count and samples as they are (the ping counts as lost).
C38_SamplesAreAnsweredPings ==
    /\ [](successful_pings = Len(ping_times))
    /\ [](ping_report.made =>
             /\ ping_report.successful_pings = Len(ping_times)
             /\ ping_report.packet_loss.num = (ping_count - Len(ping_times)) * 100)
    /\ [][SampleTurn]_vars

\* two iterations, one answered by junk and one by PONG: one sample, one
\* lost ping in the report
C38_Witness ==
    /\ ping_count = 2
    /\ ping_report.made
    /\ cerrs = <<>>
    /\ Len(ping_times) = 1
    /\ ping_report.packet_loss.num = 100

\* C39: whatever Client the builder made, the packet loss is computed with
\* a ping_count of at least 1 (no division by zero, no underflow of
\* ping_count - successful_pings), and the bound ping_count - 1 of the
\* delay is evaluated only with ping_count >= 1.
C39_PingCountAtLeastOne ==
    /\ ping_report.made =>
          /\ ping_report.packet_loss.den >= 1
          /\ ~ping_report.packet_loss.underflow
    /\ cpc \in {"ping_send", "ping_recv"} => ping_count - 1 >= 0

(***************************************************************************)
(* What the two sides leave in the stream for each other.                  *)
(***************************************************************************)
\* C32: in the server's upload loop the accumulator scanned for UPLOAD_DONE
\* never holds more than len(UPLOAD_DONE) - 1 bytes plus one chunk, however
\* many bytes the client uploads.
C32_AccumulatorBounded ==
    Len(done_buffer) <= Len(UPLOAD_DONE) - 1 + buffer_len

\* bytes of a PONG wait unread in the client's receive stream
PongUnread == \E j \in 1..Len(s2c) : s2c[j].k = "PONG"

\* C33: in a session without any I/O error, once the client has sent
\* DOWNLOAD_START no byte of a PONG is left unread in its receive stream, so
\* that the bytes the download loop counts are bytes of the download phase.
C33_NoStalePongAtDownload ==
    cerrs = <<>> /\ serrs = <<>> /\ Sent("DOWNLOAD_START") => ~PongUnread

\* C34: every round-trip sample taken in iteration i of the client's ping
\* loop is taken on the PONG that answers the PING written in iteration i.
C34_SampleMeasuresOwnPing ==
    \A j \in 1..Len(ping_times) : ping_times[j].ping = ping_times[j].iter

\* the whole DOWNLOAD_START is still to be read by the worker
DownloadStartUnread ==
    \E j \in 1..Len(c2s) :
        c2s[j].k = "DOWNLOAD_START" /\ c2s[j].n = DOWNLOAD_START_LEN

\* C35: in a session without any I/O error, however the steps of the two
\* sides interleave, the worker's upload loop reads no byte of
\* DOWNLOAD_START (while the worker is in that loop a DOWNLOAD_START that
\* was sent is still whole in the stream), and the client is never waiting
\* for download data while the worker waits for upload data.
C35_UploadLoopStopsAtUploadDone ==
    cerrs = <<>> /\ serrs = <<>> =>
        /\ spc = "upload_loop" /\ Sent("DOWNLOAD_START") => DownloadStartUnread
        /\ ~(/\ cpc = "download_loop" /\ Avail(s2c) = 0
             /\ spc = "upload_loop" /\ Avail(c2s) = 0)

(***************************************************************************)
(* The worker closure, scheduled again and again.                          *)
(***************************************************************************)
\* the steps the worker thread takes by itself: the handlers, the return
\* of handle_client, the decrement
ClosureSteps ==
    \/ conn[1] \in InHandleClient /\ WorkerNext
    \/ WorkerReturns
    \/ Release(1)

\* the worker thread keeps running: every read and every write of the
\* handlers has a timeout (set_read_timeout 30 s, set_write_timeout 30 s
\* and 1 s), so none of its steps waits for ever.  A panic and what the
\* listener does beside it may or may not happen.
SpecWorkerLive ==
    WorkerInit /\ [][ClosureNext]_vars /\ WF_vars(ClosureSteps)

\* C36: a worker whose client has closed the connection or has stopped
\* sending and receiving ends in time and gives its slot back: the counter
\* is decremented for the connection and the server, which was at
\* capacity, is below capacity again.
C36_WorkerReleasesSlot ==
    <>(decs[1] = 1 /\ connection_count < max_connections)

(***************************************************************************)
(* Clients served side by side.                                            *)
(***************************************************************************)
\* C31: a client that connects while the server is below capacity (one of
\* n <= max_connections clients; a worker shares nothing with the other
\* workers but the counter, so its session runs as a session alone does) is
\* admitted and its session comes to return Ok, however the steps of its
\* worker fall among the others.
C31_AdmittedSessionSucceeds ==
    \/ <>(spc = "rejected" \/ errs # <<>>)
    \/ <>(cpc = "returned" /\ cres.kind = "Ok")

====
